---------------------------- MODULE Spec2Model ----------------------------
(***************************************************************************)
(* Model of the result cache (app/core/cache_manager.py): the cache store  *)
(* SmartCacheManager with its TTL expiry, size limit and hit/miss          *)
(* counters, and the memoization decorator cached_analysis.                *)
(*                                                                         *)
(* Time is the integer value returned by time.time().  The operations of   *)
(* the cache take every reading of the clock as a parameter of its own;    *)
(* the calls below are quicker than one tick of the clock, except for the  *)
(* wrapped function, which may run for up to MaxCompute ticks.  Time       *)
(* passes between calls (Tick).                                            *)
(*                                                                         *)
(* Model of the performance recorder (app/core/performance_monitor.py):    *)
(* PerformanceMonitor with its bounded windows of samples, its counters    *)
(* and its lock.  Durations are whole seconds; the figures reported in     *)
(* milliseconds and in percent are integers counting hundredths.           *)
(***************************************************************************)
EXTENDS Integers, Sequences, FiniteSets, TLC

\* ------------------------------------------------------------------ bounds
MaxTime == 3
MaxCompute == 1
MaxCalls == 3

\* Configuration values the constructor may read from the environment.
EnabledValues == {TRUE, FALSE}
TtlValues == {2}
SizeValues == {1, 2}

\* Inputs of the calls.
Codes == {"a", "a|"}
Filenames == {"b", "|b"}
AnalysisTypes == {"quality"}
\* The files the decorated analysis functions are called on.
AnalysedFilenames == {"b"}

\* The recorder: numbers of calls, window sizes, durations and the names of
\* the timed operations.
MaxRequests == 10
MaxErrors == 3
DefaultMaxSamples == 1000
MaxSamplesValues == {1, 2}
Durations == {1, 2}
MonitoredTypes == {"comprehensive_analysis", "comment_generation"}

\* The data _percentile is applied to: every list of at most MaxLen samples
\* from SampleValues, and the lists 1..n and n..1 for the lengths LongLengths.
MaxLen == 3
SampleValues == {1, 2, 3}
LongLengths == {10, 21, 40}
Percentiles == {95, 99}

\* The threads that run the background tasks and the endpoints, and the
\* number of calls they make together.
Threads == {1, 2, 3}
MaxThreadCalls == 4
CacheThreads == {1, 2}

\* ------------------------------------------------------- Python values
NoneVal == [kind |-> "none"]
IntV(n) == [kind |-> "int", n |-> n]
BoolV(b) == [kind |-> "bool", b |-> b]
StrV(s) == [kind |-> "str", s |-> s]
ListV(items) == [kind |-> "list", items |-> items]
DictV(fields) == [kind |-> "dict", fields |-> fields]

IsDict(v) == v.kind = "dict"
IsList(v) == v.kind = "list"

\* d[k] = v on a Python dict value
DictSet(d, k, v) ==
    DictV([x \in (DOMAIN d.fields) \cup {k} |-> IF x = k THEN v ELSE d.fields[x]])

HasField(v, k) == IsDict(v) /\ k \in DOMAIN v.fields

\* Values a caller passes to set directly.
SetValues == {DictV("score" :> IntV(1)), DictV("score" :> IntV(2))}

\* What the wrapped function may return; "raise" stands for an exception.
ComputeReturns ==
    {ListV(<<StrV("i1")>>), DictV("score" :> IntV(7)), IntV(42), NoneVal}
Raise == [kind |-> "raise"]
ComputeOutcomes == ComputeReturns \cup {Raise}

\* ------------------------------------------------------------------ state
VARIABLES
    cache_enabled,   \* self.cache_enabled
    cache_ttl,       \* self.cache_ttl
    max_cache_size,  \* self.max_cache_size
    _cache,          \* self._cache: key -> entry
    _access_times,   \* self._access_times: insertion-ordered items <<key, time>>
    _hit_count,      \* self._hit_count
    _miss_count,     \* self._miss_count
    now,             \* the value time.time() returns
    last,            \* the last call: its arguments and what it returned
    written,         \* triple -> the value and time of its latest set, while
                     \* the entry of its key has not been removed since
    max_samples,     \* self.max_samples
    _response_times, \* self._response_times: deque(maxlen=max_samples)
    _analysis_times, \* self._analysis_times: type -> deque(maxlen=max_samples)
    _request_count,  \* self._request_count
    _error_count,    \* self._error_count
    _lock,           \* self._lock: the thread that holds it, or Unlocked
    mon_log,         \* the recorder's last call and what it returned, the
                     \* numbers of completed record_response_time and
                     \* record_error calls, and the number of calls the
                     \* threads have made
    percentile_call, \* a call of _percentile: its arguments and what it returned
    monitor_threads, \* thread -> the call of the recorder it is in: the
                     \* statement it is at and its local variables
    cache_threads    \* thread -> the call of the cache it is in (or was in
                     \* last): the statement it is at, its local variables,
                     \* and what the call returned or raised

cache_vars == <<cache_enabled, cache_ttl, max_cache_size, _cache, _access_times,
                _hit_count, _miss_count, now, last, written>>

monitor_vars == <<max_samples, _response_times, _analysis_times, _request_count,
                  _error_count, _lock, mon_log>>

vars == <<cache_vars, monitor_vars, percentile_call, monitor_threads,
          cache_threads>>

\* What the cache's operations leave alone.
beside_cache == <<monitor_vars, percentile_call, monitor_threads, cache_threads>>

\* What the recorder's operations leave alone.
beside_monitor == <<cache_vars, percentile_call, monitor_threads, cache_threads>>

config == <<cache_enabled, cache_ttl, max_cache_size>>

\* ------------------------------------------------------------ dict helpers
\* Python dicts keep insertion order; _access_times is sorted with a stable
\* sort, so its order is part of the state.
ItemKeys(items) == {items[i].key : i \in 1..Len(items)}

ItemTime(items, k) == (CHOOSE i \in 1..Len(items) : items[i].key = k)

AccessTime(items, k) == items[ItemTime(items, k)].time

\* items[k] = t
ItemsSet(items, k, t) ==
    IF k \in ItemKeys(items)
    THEN [i \in 1..Len(items) |->
             IF items[i].key = k THEN [key |-> k, time |-> t] ELSE items[i]]
    ELSE Append(items, [key |-> k, time |-> t])

\* for k in ks: if k in items: del items[k]
ItemsDel(items, ks) == SelectSeq(items, LAMBDA it : it.key \notin ks)

\* for k in ks: del d[k]   (on a dict modelled as a function)
FcnDel(f, ks) == [k \in (DOMAIN f) \ ks |-> f[k]]

\* d[k] = v   (on a dict modelled as a function)
FcnSet(f, k, v) == [x \in (DOMAIN f) \cup {k} |-> IF x = k THEN v ELSE f[x]]

EmptyFcn == [k \in {} |-> NoneVal]

\* sorted(items, key=lambda x: x[1]): stable, ascending by time
RECURSIVE InsertSorted(_, _)
InsertSorted(sorted, it) ==
    IF sorted = <<>> THEN <<it>>
    ELSE IF sorted[Len(sorted)].time <= it.time THEN Append(sorted, it)
    ELSE Append(InsertSorted(SubSeq(sorted, 1, Len(sorted) - 1), it),
                sorted[Len(sorted)])

RECURSIVE SortedByTime(_)
SortedByTime(items) ==
    IF items = <<>> THEN <<>>
    ELSE InsertSorted(SortedByTime(SubSeq(items, 1, Len(items) - 1)),
                      items[Len(items)])

\* seq[:n]
Prefix(seq, n) ==
    IF n <= 0 THEN <<>> ELSE SubSeq(seq, 1, IF n < Len(seq) THEN n ELSE Len(seq))

\* --------------------------------------------------------------- the cache
\* hashlib.sha256(content.encode()).hexdigest()[:16]: the 64-bit digest has no
\* collision on the strings of this model, so a digest is written as the
\* string it digests.
Sha256Hex16(content) == content

_generate_cache_key(code, filename, analysis_type) ==
    Sha256Hex16(code \o "|" \o filename \o "|" \o analysis_type)

\* As _is_cache_valid, with the age compared by <= (an entry of age ttl valid).
_is_cache_valid_inclusive(enabled, ttl, cache_entry, current_time) ==
    IF ~enabled THEN FALSE
    ELSE (current_time - cache_entry.timestamp) <= ttl

_is_cache_valid(enabled, ttl, cache_entry, current_time) ==
    IF ~enabled THEN FALSE
    ELSE (current_time - cache_entry.timestamp) < ttl

\* The keys the expiry sweep of _cleanup_old_entries removes.
ExpiredKeys(cache, ttl, current_time) ==
    {k \in DOMAIN cache : (current_time - cache[k].timestamp) > ttl}

\* As KeysToRemove, taking the keys from the end of the sorted list (the most
\* recently accessed ones).
KeysToRemove_newest(cache, access, cmax) ==
    LET sorted_keys == SortedByTime(access)
        n == Cardinality(DOMAIN cache) - cmax
    IN  IF Cardinality(DOMAIN cache) > cmax
        THEN ItemKeys(SubSeq(sorted_keys,
                             IF n < Len(sorted_keys) THEN Len(sorted_keys) - n + 1 ELSE 1,
                             Len(sorted_keys)))
        ELSE {}

\* The keys the size limit of _cleanup_old_entries removes, once the expired
\* ones are gone.
KeysToRemove(cache, access, cmax) ==
    IF Cardinality(DOMAIN cache) > cmax
    THEN ItemKeys(Prefix(SortedByTime(access), Cardinality(DOMAIN cache) - cmax))
    ELSE {}

\* As _cleanup_old_entries, without the removal for the size limit.
_cleanup_old_entries_sweep_only(s, ttl, cmax, current_time) ==
    LET expired_keys == ExpiredKeys(s.cache, ttl, current_time)
    IN  [s EXCEPT !.cache = FcnDel(s.cache, expired_keys),
                  !.access = ItemsDel(s.access, expired_keys)]

\* s is a store: [cache, access, hits, misses]
_cleanup_old_entries(s, ttl, cmax, current_time) ==
    LET expired_keys == ExpiredKeys(s.cache, ttl, current_time)
        cache1 == FcnDel(s.cache, expired_keys)
        access1 == ItemsDel(s.access, expired_keys)
        keys_to_remove == KeysToRemove(cache1, access1, cmax)
    IN  [s EXCEPT !.cache = FcnDel(cache1, keys_to_remove),
                  !.access = ItemsDel(access1, keys_to_remove)]

Store == [cache |-> _cache, access |-> _access_times,
          hits |-> _hit_count, misses |-> _miss_count]

\* As get, but the lookup of a key that has no entry is not counted.
get_absent_uncounted(s, enabled, ttl, code, filename, analysis_type, t1, t2) ==
    LET cache_key == _generate_cache_key(code, filename, analysis_type) IN
    IF ~enabled THEN [store |-> s, ret |-> NoneVal, hit |-> FALSE]
    ELSE IF cache_key \in DOMAIN s.cache
         THEN IF _is_cache_valid(enabled, ttl, s.cache[cache_key], t1)
              THEN [store |-> [s EXCEPT
                                 !.access = ItemsSet(s.access, cache_key, t2),
                                 !.hits = s.hits + 1],
                    ret |-> s.cache[cache_key].result,
                    hit |-> TRUE]
              ELSE [store |-> [s EXCEPT
                                 !.cache = FcnDel(s.cache, {cache_key}),
                                 !.access = ItemsDel(s.access, {cache_key}),
                                 !.misses = s.misses + 1],
                    ret |-> NoneVal,
                    hit |-> FALSE]
         ELSE [store |-> s, ret |-> NoneVal, hit |-> FALSE]

\* As get, but a hit also moves the entry's timestamp to the time of the read.
get_extends_lifetime(s, enabled, ttl, code, filename, analysis_type, t1, t2) ==
    LET cache_key == _generate_cache_key(code, filename, analysis_type) IN
    IF ~enabled THEN [store |-> s, ret |-> NoneVal, hit |-> FALSE]
    ELSE IF cache_key \in DOMAIN s.cache
         THEN IF _is_cache_valid(enabled, ttl, s.cache[cache_key], t1)
              THEN [store |-> [s EXCEPT
                                 !.cache[cache_key].timestamp = t2,
                                 !.access = ItemsSet(s.access, cache_key, t2),
                                 !.hits = s.hits + 1],
                    ret |-> s.cache[cache_key].result,
                    hit |-> TRUE]
              ELSE [store |-> [s EXCEPT
                                 !.cache = FcnDel(s.cache, {cache_key}),
                                 !.access = ItemsDel(s.access, {cache_key}),
                                 !.misses = s.misses + 1],
                    ret |-> NoneVal,
                    hit |-> FALSE]
         ELSE [store |-> [s EXCEPT !.misses = s.misses + 1],
               ret |-> NoneVal,
               hit |-> FALSE]

\* get: t1 is the time _is_cache_valid reads, t2 the time written as access
\* time.  The result is the store after the call with the value returned.
get(s, enabled, ttl, code, filename, analysis_type, t1, t2) ==
    LET cache_key == _generate_cache_key(code, filename, analysis_type) IN
    IF ~enabled THEN [store |-> s, ret |-> NoneVal, hit |-> FALSE]
    ELSE IF cache_key \in DOMAIN s.cache
         THEN IF _is_cache_valid(enabled, ttl, s.cache[cache_key], t1)
              THEN [store |-> [s EXCEPT
                                 !.access = ItemsSet(s.access, cache_key, t2),
                                 !.hits = s.hits + 1],
                    ret |-> s.cache[cache_key].result,
                    hit |-> TRUE]
              ELSE [store |-> [s EXCEPT
                                 !.cache = FcnDel(s.cache, {cache_key}),
                                 !.access = ItemsDel(s.access, {cache_key}),
                                 !.misses = s.misses + 1],
                    ret |-> NoneVal,
                    hit |-> FALSE]
         ELSE [store |-> [s EXCEPT !.misses = s.misses + 1],
               ret |-> NoneVal,
               hit |-> FALSE]

\* As set, but a key that already has an access time keeps it.
set_keeps_access_time(s, enabled, ttl, cmax, code, filename, analysis_type, result, t1, t2, t3) ==
    LET cache_key == _generate_cache_key(code, filename, analysis_type)
        s1 == _cleanup_old_entries(s, ttl, cmax, t1)
        cache_entry == [result |-> result,
                        timestamp |-> t2,
                        filename |-> filename,
                        analysis_type |-> analysis_type,
                        code_size |-> Len(code)]
    IN  IF ~enabled THEN s
        ELSE [s1 EXCEPT !.cache = FcnSet(s1.cache, cache_key, cache_entry),
                        !.access = IF cache_key \in ItemKeys(s1.access)
                                   THEN s1.access
                                   ELSE ItemsSet(s1.access, cache_key, t3)]

\* As set, without the early return of a disabled cache.
set_when_disabled(s, enabled, ttl, cmax, code, filename, analysis_type, result, t1, t2, t3) ==
    LET cache_key == _generate_cache_key(code, filename, analysis_type)
        s1 == _cleanup_old_entries(s, ttl, cmax, t1)
        cache_entry == [result |-> result,
                        timestamp |-> t2,
                        filename |-> filename,
                        analysis_type |-> analysis_type,
                        code_size |-> Len(code)]
    IN  [s1 EXCEPT !.cache = FcnSet(s1.cache, cache_key, cache_entry),
                   !.access = ItemsSet(s1.access, cache_key, t3)]

\* set: t1 is the time the cleanup reads, t2 the entry's timestamp, t3 its
\* access time.
set(s, enabled, ttl, cmax, code, filename, analysis_type, result, t1, t2, t3) ==
    LET cache_key == _generate_cache_key(code, filename, analysis_type)
        s1 == _cleanup_old_entries(s, ttl, cmax, t1)
        cache_entry == [result |-> result,
                        timestamp |-> t2,
                        filename |-> filename,
                        analysis_type |-> analysis_type,
                        code_size |-> Len(code)]
    IN  IF ~enabled THEN s
        ELSE [s1 EXCEPT !.cache = FcnSet(s1.cache, cache_key, cache_entry),
                        !.access = ItemsSet(s1.access, cache_key, t3)]

\* As clear_cache, without the reset of the two counters.
clear_cache_keeps_counters(s) ==
    [s EXCEPT !.cache = EmptyFcn, !.access = <<>>]

clear_cache(s) ==
    [cache |-> EmptyFcn, access |-> <<>>, hits |-> 0, misses |-> 0]

\* round(n / d, 0) for n >= 0 and d > 0: the nearest integer, a tie going to
\* the even one.
RoundDiv(n, d) ==
    LET q == n \div d
        r == n % d
    IN  IF 2 * r < d THEN q
        ELSE IF 2 * r > d THEN q + 1
        ELSE IF q % 2 = 0 THEN q ELSE q + 1

\* round(part / whole * 100, 2), in hundredths of a percent.
RoundedPercent(part, whole) == RoundDiv(part * 100 * 100, whole)

\* As get_cache_stats, with the rate computed from the misses.
get_cache_stats_miss_rate(s, enabled, ttl, cmax) ==
    [enabled |-> enabled,
     total_requests |-> s.hits + s.misses,
     cache_hits |-> s.hits,
     cache_misses |-> s.misses,
     hit_rate_percent |-> IF s.hits + s.misses > 0
                          THEN RoundedPercent(s.misses, s.hits + s.misses)
                          ELSE 0,
     cache_size |-> Cardinality(DOMAIN s.cache),
     max_cache_size |-> cmax,
     ttl_seconds |-> ttl]

\* What get_cache_stats reports (without the memory estimate);
\* hit_rate_percent is in hundredths of a percent.
get_cache_stats(s, enabled, ttl, cmax) ==
    [enabled |-> enabled,
     total_requests |-> s.hits + s.misses,
     cache_hits |-> s.hits,
     cache_misses |-> s.misses,
     hit_rate_percent |-> IF s.hits + s.misses > 0
                          THEN RoundedPercent(s.hits, s.hits + s.misses)
                          ELSE 0,
     cache_size |-> Cardinality(DOMAIN s.cache),
     max_cache_size |-> cmax,
     ttl_seconds |-> ttl]

\* ------------------------------------------------- the memoization wrapper
\* The record the wrapper builds from what the wrapped function returned
\* (lines 196-212); ms is round(execution_time * 1000, 2).
Annotate(result, analysis_type, ms) ==
    IF IsList(result)
    THEN DictV([f \in {"insights", "execution_time_ms", "cached", "analysis_type"} |->
                  CASE f = "insights" -> result
                    [] f = "execution_time_ms" -> IntV(ms)
                    [] f = "cached" -> BoolV(FALSE)
                    [] OTHER -> StrV(analysis_type)])
    ELSE IF IsDict(result)
    THEN DictSet(DictSet(DictSet(result, "execution_time_ms", IntV(ms)),
                         "cached", BoolV(FALSE)),
                 "analysis_type", StrV(analysis_type))
    ELSE result

\* As wrapper, but a failure of func is caught and cached as None.
wrapper_caches_failure(s, enabled, ttl, cmax, code, filename, analysis_type, outcome, ts) ==
    LET g == get(s, enabled, ttl, code, filename, analysis_type, ts[1], ts[2])
        cache_result == Annotate(outcome, analysis_type, (ts[4] - ts[3]) * 1000)
    IN  IF g.ret # NoneVal
        THEN [store |-> g.store, ret |-> g.ret, computed |-> FALSE,
              raised |-> FALSE, hit |-> g.hit]
        ELSE IF outcome = Raise
        THEN [store |-> set(g.store, enabled, ttl, cmax, code, filename,
                            analysis_type, NoneVal, ts[5], ts[6], ts[7]),
              ret |-> NoneVal, computed |-> TRUE,
              raised |-> TRUE, hit |-> g.hit]
        ELSE [store |-> set(g.store, enabled, ttl, cmax, code, filename,
                            analysis_type, cache_result, ts[5], ts[6], ts[7]),
              ret |-> cache_result, computed |-> TRUE,
              raised |-> FALSE, hit |-> g.hit]

\* cached_analysis(analysis_type)(func)(self, code, filename): one call of the
\* wrapper.  outcome is what func does when it is invoked; ts are the seven
\* values time.time() returns, in order: two in get, start_time and the end
\* of func, three in set.
wrapper(s, enabled, ttl, cmax, code, filename, analysis_type, outcome, ts) ==
    LET g == get(s, enabled, ttl, code, filename, analysis_type, ts[1], ts[2])
        cache_result == Annotate(outcome, analysis_type, (ts[4] - ts[3]) * 1000)
    IN  IF g.ret # NoneVal
        THEN [store |-> g.store, ret |-> g.ret, computed |-> FALSE,
              raised |-> FALSE, hit |-> g.hit]
        ELSE IF outcome = Raise
        THEN [store |-> g.store, ret |-> NoneVal, computed |-> TRUE,
              raised |-> TRUE, hit |-> g.hit]
        ELSE [store |-> set(g.store, enabled, ttl, cmax, code, filename,
                            analysis_type, cache_result, ts[5], ts[6], ts[7]),
              ret |-> cache_result, computed |-> TRUE,
              raised |-> FALSE, hit |-> g.hit]

\* ---------------------------------------------------------------- actions
Triple(code, filename, analysis_type) == <<code, filename, analysis_type>>

Triples == Codes \X Filenames \X AnalysisTypes

KeyOf(triple) == _generate_cache_key(triple[1], triple[2], triple[3])

NoCall == [seq |-> 0, op |-> "init", triple |-> <<"", "", "">>, key |-> "",
           ret |-> NoneVal, hit |-> FALSE, computed |-> FALSE, raised |-> FALSE,
           t |-> 0, age |-> -1, removed |-> {}, evicted |-> {}, lookups |-> 0,
           gets |-> 0]

\* The age get finds for the key's entry at time t, -1 when there is none.
AgeAt(cache, key, t) ==
    IF key \in DOMAIN cache THEN t - cache[key].timestamp ELSE -1

\* The keys a set at time t removes from store s because of the size limit,
\* and all the keys its cleanup removes.
EvictedBySet(s, enabled, ttl, cmax, t) ==
    LET expired_keys == ExpiredKeys(s.cache, ttl, t) IN
    IF enabled
    THEN KeysToRemove(FcnDel(s.cache, expired_keys),
                      ItemsDel(s.access, expired_keys), cmax)
    ELSE {}

RemovedBySet(s, enabled, ttl, cmax, t) ==
    IF enabled
    THEN ExpiredKeys(s.cache, ttl, t) \cup EvictedBySet(s, enabled, ttl, cmax, t)
    ELSE {}

\* written once the entries of keys are removed, and once triple is set.
Forget(w, keys) == [tr \in {x \in DOMAIN w : KeyOf(x) \notin keys} |-> w[tr]]

Remember(w, triple, value, t) == FcnSet(w, triple, [value |-> value, time |-> t])

Install(s) ==
    /\ _cache' = s.cache
    /\ _access_times' = s.access
    /\ _hit_count' = s.hits
    /\ _miss_count' = s.misses

\* A thread that has not called the cache.
NoCacheThread == [pc |-> "idle", op |-> "", triple |-> <<"", "", "">>,
                  cache_key |-> "", result |-> NoneVal, cache_entry |-> NoneVal,
                  count |-> 0, current_time |-> 0, seen |-> {}, iter_len |-> 0,
                  expired_keys |-> <<>>, keys_to_remove |-> <<>>,
                  start_time |-> 0, total_requests |-> 0, ret |-> NoneVal,
                  raised |-> "", calls |-> 0, computes |-> 0, failed |-> FALSE,
                  plain |-> FALSE, keys |-> {}]

\* The cache after its construction.
InitCache ==
    /\ cache_enabled \in EnabledValues
    /\ cache_ttl \in TtlValues
    /\ max_cache_size \in SizeValues
    /\ _cache = EmptyFcn
    /\ _access_times = <<>>
    /\ _hit_count = 0
    /\ _miss_count = 0
    /\ now = 0
    /\ last = NoCall
    /\ written = EmptyFcn
    /\ cache_threads = [t \in CacheThreads |-> NoCacheThread]

Unlocked == 0

NoMonitorCall == [op |-> "init", analysis_type |-> "", duration |-> 0,
                  ret |-> NoneVal, samples |-> 0, responses |-> 0, errors |-> 0,
                  calls |-> 0]

\* A thread outside the recorder.
IdleThread == [pc |-> "idle", op |-> "", analysis_type |-> "", duration |-> 0,
               count |-> 0, response_times_list |-> <<>>,
               analysis_times |-> EmptyFcn]

\* The recorder after PerformanceMonitor(max_samples=samples).
InitMonitor(samples) ==
    /\ max_samples = samples
    /\ _response_times = <<>>
    /\ _analysis_times = EmptyFcn
    /\ _request_count = 0
    /\ _error_count = 0
    /\ _lock = Unlocked
    /\ mon_log = NoMonitorCall
    /\ monitor_threads = [t \in Threads |-> IdleThread]

NoPercentileCall == [data |-> <<>>, percentile |-> 0, ret |-> 0]

Init ==
    /\ InitCache
    /\ InitMonitor(DefaultMaxSamples)
    /\ percentile_call = NoPercentileCall

Get ==
    /\ last.seq < MaxCalls
    /\ \E code \in Codes, filename \in Filenames, analysis_type \in AnalysisTypes :
        \E g \in {get(Store, cache_enabled, cache_ttl, code, filename,
                      analysis_type, now, now)} :
        LET key == _generate_cache_key(code, filename, analysis_type)
            removed == (DOMAIN _cache) \ (DOMAIN g.store.cache)
        IN  /\ Install(g.store)
            /\ last' = [NoCall EXCEPT
                          !.seq = last.seq + 1, !.op = "get",
                          !.triple = Triple(code, filename, analysis_type),
                          !.key = key, !.ret = g.ret, !.hit = g.hit,
                          !.t = now, !.age = AgeAt(_cache, key, now),
                          !.removed = removed, !.gets = last.gets + 1]
            /\ written' = Forget(written, removed)
    /\ UNCHANGED <<config, now, beside_cache>>

Set ==
    /\ last.seq < MaxCalls
    /\ \E code \in Codes, filename \in Filenames, analysis_type \in AnalysisTypes,
          result \in SetValues :
        \E s1 \in {set(Store, cache_enabled, cache_ttl, max_cache_size, code,
                       filename, analysis_type, result, now, now, now)},
           removed \in {RemovedBySet(Store, cache_enabled, cache_ttl,
                                     max_cache_size, now)} :
            /\ Install(s1)
            /\ last' = [NoCall EXCEPT
                          !.seq = last.seq + 1, !.op = "set",
                          !.triple = Triple(code, filename, analysis_type),
                          !.key = _generate_cache_key(code, filename, analysis_type),
                          !.t = now,
                          !.removed = removed,
                          !.evicted = EvictedBySet(Store, cache_enabled, cache_ttl,
                                                   max_cache_size, now),
                          !.gets = last.gets]
            /\ written' = IF cache_enabled
                          THEN Remember(Forget(written, removed),
                                        Triple(code, filename, analysis_type),
                                        result, now)
                          ELSE written
    /\ UNCHANGED <<config, now, beside_cache>>

ClearCache ==
    /\ last.seq < MaxCalls
    /\ Install(clear_cache(Store))
    /\ last' = [NoCall EXCEPT !.seq = last.seq + 1, !.op = "clear",
                              !.t = now, !.removed = DOMAIN _cache,
                              !.lookups = _hit_count + _miss_count]
    /\ written' = EmptyFcn
    /\ UNCHANGED <<config, now, beside_cache>>

\* One call of a function decorated with cached_analysis; the wrapped function
\* runs for d ticks.
CachedAnalysis ==
    /\ last.seq < MaxCalls
    /\ \E code \in Codes, filename \in AnalysedFilenames, analysis_type \in AnalysisTypes,
          outcome \in ComputeOutcomes, d \in 0..MaxCompute :
        \E w \in {wrapper(Store, cache_enabled, cache_ttl, max_cache_size, code,
                          filename, analysis_type, outcome,
                          <<now, now, now, now + d, now + d, now + d, now + d>>)},
           g \in {get(Store, cache_enabled, cache_ttl, code, filename,
                      analysis_type, now, now)} :
        LET key == _generate_cache_key(code, filename, analysis_type)
            end == now + d
            byGet == (DOMAIN _cache) \ (DOMAIN g.store.cache)
            stored == w.computed /\ ~w.raised
        IN  /\ end <= MaxTime
            /\ w.computed \/ d = 0
            /\ Install(w.store)
            /\ now' = IF w.computed THEN end ELSE now
            /\ \E bySet \in {IF stored
                             THEN RemovedBySet(g.store, cache_enabled, cache_ttl,
                                               max_cache_size, end)
                             ELSE {}} :
                /\ last' = [NoCall EXCEPT
                              !.seq = last.seq + 1, !.op = "memo",
                              !.triple = Triple(code, filename, analysis_type),
                              !.key = key, !.ret = w.ret, !.hit = w.hit,
                              !.computed = w.computed, !.raised = w.raised,
                              !.t = now, !.age = AgeAt(_cache, key, now),
                              !.removed = byGet \cup bySet,
                              !.evicted = IF stored
                                          THEN EvictedBySet(g.store, cache_enabled,
                                                            cache_ttl, max_cache_size,
                                                            end)
                                          ELSE {},
                              !.gets = last.gets + 1]
                /\ written' = IF stored /\ cache_enabled
                              THEN Remember(Forget(written, byGet \cup bySet),
                                            Triple(code, filename, analysis_type),
                                            w.ret, end)
                              ELSE Forget(written, byGet)
    /\ UNCHANGED <<config, beside_cache>>

Tick ==
    /\ now < MaxTime
    /\ now' = now + 1
    /\ UNCHANGED <<config, _cache, _access_times, _hit_count, _miss_count,
                   last, written, beside_cache>>

\* The cache's own interface.
Next == Get \/ Set \/ ClearCache \/ Tick

Spec == Init /\ [][Next]_vars

\* The cache as the decorated analysis functions and the administrative
\* clear endpoint use it.
NextMemo == CachedAnalysis \/ ClearCache \/ Tick

SpecMemo == Init /\ [][NextMemo]_vars

\* ------------------------------------------------------------- the recorder
\* deque(maxlen=maxlen).append(x): a full deque drops its leftmost item.
deque_append_unbounded(d, x, maxlen) == Append(d, x)

deque_append(d, x, maxlen) ==
    LET a == Append(d, x)
    IN  IF Len(a) > maxlen THEN Tail(a) ELSE a

RECURSIVE Sum(_)
Sum(data) == IF data = <<>> THEN 0 ELSE Head(data) + Sum(Tail(data))

Elements(data) == {data[i] : i \in 1..Len(data)}

min(data) == CHOOSE x \in Elements(data) : \A y \in Elements(data) : x <= y

max(data) == CHOOSE x \in Elements(data) : \A y \in Elements(data) : x >= y

\* sorted(data): ascending, by insertion.
RECURSIVE InsertAscending(_, _)
InsertAscending(sorted_data, x) ==
    IF sorted_data = <<>> THEN <<x>>
    ELSE IF x < Head(sorted_data) THEN <<x>> \o sorted_data
    ELSE <<Head(sorted_data)>> \o InsertAscending(Tail(sorted_data), x)

RECURSIVE sorted(_)
sorted(data) ==
    IF data = <<>> THEN <<>>
    ELSE InsertAscending(sorted(SubSeq(data, 1, Len(data) - 1)), data[Len(data)])

\* round(num / den * 1000, 2), in hundredths of a millisecond.
RoundedMs(num, den) == RoundDiv(num * 1000 * 100, den)

\* statistics.median: the middle item, or the mean of the two middle items.
median2(data) ==
    LET sorted_data == sorted(data)
        n == Len(data)
    IN  IF n % 2 = 1 THEN 2 * sorted_data[(n + 1) \div 2]
        ELSE sorted_data[n \div 2] + sorted_data[n \div 2 + 1]

\* As _percentile, on the data as they come.
_percentile_unsorted(data, percentile) ==
    IF data = <<>> THEN 0
    ELSE LET index == (Len(data) * percentile) \div 100
         IN  data[(IF index < Len(data) - 1 THEN index ELSE Len(data) - 1) + 1]

_percentile(data, percentile) ==
    IF data = <<>> THEN 0
    ELSE LET sorted_data == sorted(data)
             index == (Len(sorted_data) * percentile) \div 100
         IN  sorted_data[(IF index < Len(sorted_data) - 1
                          THEN index ELSE Len(sorted_data) - 1) + 1]

\* The recorder's fields.
Monitor == [response_times |-> _response_times, analysis_times |-> _analysis_times,
            request_count |-> _request_count, error_count |-> _error_count]

InstallMonitor(m) ==
    /\ _response_times' = m.response_times
    /\ _analysis_times' = m.analysis_times
    /\ _request_count' = m.request_count
    /\ _error_count' = m.error_count

record_response_time(m, samples, duration) ==
    [m EXCEPT !.response_times = deque_append(@, duration, samples),
              !.request_count = @ + 1]

\* self._analysis_times is a defaultdict: a type's window is made on its
\* first use.
record_analysis_time(m, samples, analysis_type, duration) ==
    LET times == IF analysis_type \in DOMAIN m.analysis_times
                 THEN m.analysis_times[analysis_type] ELSE <<>>
    IN  [m EXCEPT !.analysis_times =
                      FcnSet(@, analysis_type, deque_append(times, duration, samples))]

record_error(m) == [m EXCEPT !.error_count = @ + 1]

response_stats(response_times_list) ==
    IF response_times_list = <<>> THEN EmptyFcn
    ELSE [avg_ms |-> RoundedMs(Sum(response_times_list), Len(response_times_list)),
          median_ms |-> RoundedMs(median2(response_times_list), 2),
          min_ms |-> RoundedMs(min(response_times_list), 1),
          max_ms |-> RoundedMs(max(response_times_list), 1),
          p95_ms |-> RoundedMs(_percentile(response_times_list, 95), 1),
          p99_ms |-> RoundedMs(_percentile(response_times_list, 99), 1)]

analysis_breakdown(analysis_times) ==
    [analysis_type \in {a \in DOMAIN analysis_times : analysis_times[a] # <<>>} |->
        [avg_ms |-> RoundedMs(Sum(analysis_times[analysis_type]),
                              Len(analysis_times[analysis_type])),
         count |-> Len(analysis_times[analysis_type])]]

\* As stats_of, with the errors taken as a share of errors and requests.
stats_of_error_share(response_times_list, analysis_times, request_count, error_count) ==
    [total_requests |-> request_count,
     error_count |-> error_count,
     error_rate_percent |-> IF request_count > 0
                            THEN RoundedPercent(error_count, request_count + error_count)
                            ELSE 0,
     response_times |-> response_stats(response_times_list),
     analysis_breakdown |-> analysis_breakdown(analysis_times)]

\* The dictionary get_performance_stats builds from what it has read
\* (without the two figures derived from the uptime); error_rate_percent is in
\* hundredths of a percent.
stats_of(response_times_list, analysis_times, request_count, error_count) ==
    [total_requests |-> request_count,
     error_count |-> error_count,
     error_rate_percent |-> IF request_count > 0
                            THEN RoundedPercent(error_count, request_count)
                            ELSE 0,
     response_times |-> response_stats(response_times_list),
     analysis_breakdown |-> analysis_breakdown(analysis_times)]

get_performance_stats(m) ==
    stats_of(m.response_times, m.analysis_times, m.request_count, m.error_count)

\* One caller at a time: each call takes the lock, runs and releases it.
RecordResponseTime ==
    /\ _request_count < MaxRequests
    /\ _lock = Unlocked
    /\ \E duration \in Durations :
        /\ InstallMonitor(record_response_time(Monitor, max_samples, duration))
        /\ mon_log' = [NoMonitorCall EXCEPT
                         !.op = "record_response_time", !.duration = duration,
                         !.responses = mon_log.responses + 1,
                         !.errors = mon_log.errors]
    /\ UNCHANGED <<max_samples, _lock, beside_monitor>>

RecordAnalysisTime ==
    /\ _lock = Unlocked
    /\ \E analysis_type \in MonitoredTypes, duration \in Durations :
        /\ InstallMonitor(record_analysis_time(Monitor, max_samples,
                                               analysis_type, duration))
        /\ mon_log' = [NoMonitorCall EXCEPT
                         !.op = "record_analysis_time",
                         !.analysis_type = analysis_type, !.duration = duration,
                         !.responses = mon_log.responses,
                         !.errors = mon_log.errors]
    /\ UNCHANGED <<max_samples, _lock, beside_monitor>>

RecordError ==
    /\ _error_count < MaxErrors
    /\ _lock = Unlocked
    /\ InstallMonitor(record_error(Monitor))
    /\ mon_log' = [NoMonitorCall EXCEPT
                     !.op = "record_error",
                     !.responses = mon_log.responses,
                     !.errors = mon_log.errors + 1]
    /\ UNCHANGED <<max_samples, _lock, beside_monitor>>

GetPerformanceStats ==
    /\ _lock = Unlocked
    /\ mon_log' = [NoMonitorCall EXCEPT
                     !.op = "get_performance_stats",
                     !.ret = get_performance_stats(Monitor),
                     !.samples = Len(_response_times),
                     !.responses = mon_log.responses,
                     !.errors = mon_log.errors]
    /\ UNCHANGED <<max_samples, _response_times, _analysis_times, _request_count,
                   _error_count, _lock, beside_monitor>>

\* The recorder with a small window, beside a cache that is not used.
InitMon ==
    /\ InitCache
    /\ cache_enabled
    /\ max_cache_size = 1
    /\ \E samples \in MaxSamplesValues : InitMonitor(samples)
    /\ percentile_call = NoPercentileCall

NextMon ==
    RecordResponseTime \/ RecordAnalysisTime \/ RecordError \/ GetPerformanceStats

SpecMon == InitMon /\ [][NextMon]_vars

\* ------------------------------------------------ the PR analysis handler
MaxPrCalls == 3

\* How many changed files a PR may have.
FileCounts == {0, 1}

\* The analyzer blocks of one file that run to their record_analysis_time
\* calls; a block that is skipped or raises records nothing.
Blocks == {"ai", "smart", "security"}

BlockDurations == {1}

\* The places where an exception can leave the try block of
\* analyze_and_comment_on_pr: the GitHub calls before the analysis, the
\* analysis itself, and the generation and posting of the comment.
Failures == {"github", "analysis", "comment"}

\* The analyzer blocks of one file, as far as the recorder sees them: the AI
\* block records ai_analysis, the smart block smart_analysis and
\* complexity_analysis, the security block security_analysis.
analyze_file(m, samples, blocks, d) ==
    LET m1 == IF "ai" \in blocks
              THEN record_analysis_time(m, samples, "ai_analysis", d)
              ELSE m
        m2 == IF "smart" \in blocks
              THEN record_analysis_time(
                       record_analysis_time(m1, samples, "smart_analysis", d),
                       samples, "complexity_analysis", d)
              ELSE m1
    IN  IF "security" \in blocks
        THEN record_analysis_time(m2, samples, "security_analysis", d)
        ELSE m2

\* _analyze_pr_changes_comprehensive(files): files[i] is the set of blocks
\* that complete for the i-th file.
RECURSIVE _analyze_pr_changes_comprehensive(_, _, _, _)
_analyze_pr_changes_comprehensive(m, samples, files, d) ==
    IF files = <<>> THEN m
    ELSE _analyze_pr_changes_comprehensive(
             analyze_file(m, samples, Head(files), d), samples, Tail(files), d)

\* As analyze_and_comment_on_pr, but a failure of the comment is recorded as
\* a served request too.
analyze_and_comment_on_pr_counts_failure(m, samples, files, failure, d, analysis_duration, comment_duration) ==
    LET m1 == _analyze_pr_changes_comprehensive(m, samples, files, d)
        m2 == record_analysis_time(m1, samples, "comprehensive_analysis",
                                   analysis_duration)
        m3 == record_analysis_time(m2, samples, "comment_generation",
                                   comment_duration)
    IN  IF failure = "github" THEN record_error(m)
        ELSE IF failure = "analysis" THEN record_error(m1)
        ELSE IF failure = "comment"
        THEN record_error(record_response_time(m2, samples,
                              analysis_duration + comment_duration))
        ELSE record_response_time(m3, samples,
                                  analysis_duration + comment_duration)

\* analyze_and_comment_on_pr: failure is "none" or the place where an
\* exception leaves the try block; files are the files the analysis has gone
\* through by then.  The prints are taken not to raise.
analyze_and_comment_on_pr(m, samples, files, failure, d, analysis_duration, comment_duration) ==
    LET m1 == _analyze_pr_changes_comprehensive(m, samples, files, d)
        m2 == record_analysis_time(m1, samples, "comprehensive_analysis",
                                   analysis_duration)
        m3 == record_analysis_time(m2, samples, "comment_generation",
                                   comment_duration)
    IN  IF failure = "github" THEN record_error(m)
        ELSE IF failure = "analysis" THEN record_error(m1)
        ELSE IF failure = "comment" THEN record_error(m2)
        ELSE record_response_time(m3, samples,
                                  analysis_duration + comment_duration)

\* The files of a PR, each with the blocks that complete for it.
FileLists == UNION {[1..n -> SUBSET Blocks] : n \in FileCounts}

\* One invocation of analyze_and_comment_on_pr, run to its end.
AnalyzeAndCommentOnPr ==
    /\ mon_log.calls < MaxPrCalls
    /\ _lock = Unlocked
    /\ \E files \in FileLists, failure \in Failures \cup {"none"},
          d \in BlockDurations, analysis_duration \in Durations,
          comment_duration \in Durations :
        /\ failure = "github" => files = <<>>
        /\ InstallMonitor(analyze_and_comment_on_pr(
               Monitor, max_samples, files, failure, d, analysis_duration,
               comment_duration))
        /\ mon_log' = [NoMonitorCall EXCEPT
                         !.op = "analyze_and_comment_on_pr",
                         !.analysis_type = failure,
                         !.duration = analysis_duration + comment_duration,
                         !.ret = IF failure = "none" THEN NoneVal ELSE Raise,
                         !.calls = mon_log.calls + 1]
    /\ UNCHANGED <<max_samples, _lock, beside_monitor>>

\* The recorder as the PR analysis, run from the webhook, calls it.
SpecPr == InitMon /\ [][AnalyzeAndCommentOnPr]_vars

\* ---------------------------------------------------------- _percentile alone
Ascending(n) == [i \in 1..n |-> i]

Descending(n) == [i \in 1..n |-> n + 1 - i]

PercentileInputs ==
    UNION {[1..n -> SampleValues] : n \in 0..MaxLen}
        \cup {Ascending(n) : n \in LongLengths}
        \cup {Descending(n) : n \in LongLengths}

InitPct ==
    /\ InitCache
    /\ cache_enabled
    /\ max_cache_size = 1
    /\ InitMonitor(DefaultMaxSamples)
    /\ \E data \in PercentileInputs :
          percentile_call = [NoPercentileCall EXCEPT !.data = data]

Percentile ==
    /\ \E percentile \in Percentiles :
          percentile_call' = [percentile_call EXCEPT
                                !.percentile = percentile,
                                !.ret = _percentile(percentile_call.data, percentile)]
    /\ UNCHANGED <<cache_vars, monitor_vars, monitor_threads, cache_threads>>

SpecPct == InitPct /\ [][Percentile]_vars

\* ------------------------------------------------- the recorder under threads
\* Threads call the recorder at any time.  A thread runs one statement at a
\* step; self._request_count += 1 is a read and a write.
DurationsThreads == {1}
TypesThreads == {"comprehensive_analysis"}

\* As CanAcquire, for a lock that never makes a thread wait.
CanAcquire_always(lock, t) == TRUE

\* with self._lock: the thread waits while another thread holds the lock.
CanAcquire(lock, t) == lock = Unlocked

FirstStatement(op) ==
    CASE op = "record_response_time" -> "append"
      [] op = "record_analysis_time" -> "append_analysis"
      [] op = "record_error" -> "load_errors"
      [] op = "get_performance_stats" -> "read_times"

At(t, pc) == monitor_threads[t].pc = pc

Goto(t, pc) == monitor_threads' = [monitor_threads EXCEPT ![t].pc = pc]

beside_threads == <<cache_vars, percentile_call, cache_threads>>

\* Thread t calls an operation of the recorder.
Call(t) ==
    /\ At(t, "idle")
    /\ mon_log.calls < MaxThreadCalls
    /\ \E op \in {"record_response_time", "record_analysis_time", "record_error",
                  "get_performance_stats"},
          analysis_type \in TypesThreads, duration \in DurationsThreads :
          monitor_threads' = [monitor_threads EXCEPT ![t] =
              [IdleThread EXCEPT
                  !.pc = "acquire", !.op = op,
                  !.analysis_type = IF op = "record_analysis_time"
                                    THEN analysis_type ELSE "",
                  !.duration = IF op \in {"record_response_time",
                                           "record_analysis_time"}
                               THEN duration ELSE 0]]
    /\ mon_log' = [mon_log EXCEPT !.calls = @ + 1]
    /\ UNCHANGED <<max_samples, _response_times, _analysis_times, _request_count,
                   _error_count, _lock, beside_threads>>

Acquire(t) ==
    /\ At(t, "acquire")
    /\ CanAcquire(_lock, t)
    /\ _lock' = t
    /\ Goto(t, FirstStatement(monitor_threads[t].op))
    /\ UNCHANGED <<max_samples, _response_times, _analysis_times, _request_count,
                   _error_count, mon_log, beside_threads>>

\* self._response_times.append(duration)
AppendResponseTime(t) ==
    /\ At(t, "append")
    /\ _response_times' = deque_append(_response_times, monitor_threads[t].duration,
                                       max_samples)
    /\ Goto(t, "load_requests")
    /\ UNCHANGED <<max_samples, _analysis_times, _request_count, _error_count,
                   _lock, mon_log, beside_threads>>

\* self._request_count += 1, the read
LoadRequestCount(t) ==
    /\ At(t, "load_requests")
    /\ monitor_threads' = [monitor_threads EXCEPT
                             ![t].pc = "store_requests",
                             ![t].count = _request_count]
    /\ UNCHANGED <<monitor_vars, beside_threads>>

\* self._request_count += 1, the write
StoreRequestCount(t) ==
    /\ At(t, "store_requests")
    /\ _request_count' = monitor_threads[t].count + 1
    /\ Goto(t, "release")
    /\ UNCHANGED <<max_samples, _response_times, _analysis_times, _error_count,
                   _lock, mon_log, beside_threads>>

\* self._analysis_times[analysis_type].append(duration)
AppendAnalysisTime(t) ==
    /\ At(t, "append_analysis")
    /\ _analysis_times' =
          record_analysis_time(Monitor, max_samples, monitor_threads[t].analysis_type,
                               monitor_threads[t].duration).analysis_times
    /\ Goto(t, "release")
    /\ UNCHANGED <<max_samples, _response_times, _request_count, _error_count,
                   _lock, mon_log, beside_threads>>

\* self._error_count += 1, the read
LoadErrorCount(t) ==
    /\ At(t, "load_errors")
    /\ monitor_threads' = [monitor_threads EXCEPT
                             ![t].pc = "store_errors",
                             ![t].count = _error_count]
    /\ UNCHANGED <<monitor_vars, beside_threads>>

\* self._error_count += 1, the write
StoreErrorCount(t) ==
    /\ At(t, "store_errors")
    /\ _error_count' = monitor_threads[t].count + 1
    /\ Goto(t, "release")
    /\ UNCHANGED <<max_samples, _response_times, _analysis_times, _request_count,
                   _lock, mon_log, beside_threads>>

\* response_times_list = list(self._response_times) and its statistics
ReadResponseTimes(t) ==
    /\ At(t, "read_times")
    /\ monitor_threads' = [monitor_threads EXCEPT
                             ![t].pc = "read_analysis",
                             ![t].response_times_list = _response_times]
    /\ UNCHANGED <<monitor_vars, beside_threads>>

\* the loop over self._analysis_times.items()
ReadAnalysisTimes(t) ==
    /\ At(t, "read_analysis")
    /\ monitor_threads' = [monitor_threads EXCEPT
                             ![t].pc = "read_counts",
                             ![t].analysis_times = _analysis_times]
    /\ UNCHANGED <<monitor_vars, beside_threads>>

\* error_rate and the returned dict are computed from the counters; the
\* lock is released on the way out.
ReturnStats(t) ==
    /\ At(t, "read_counts")
    /\ _lock' = Unlocked
    /\ mon_log' = [NoMonitorCall EXCEPT
                     !.op = "get_performance_stats",
                     !.ret = stats_of(monitor_threads[t].response_times_list,
                                      monitor_threads[t].analysis_times,
                                      _request_count, _error_count),
                     !.samples = Len(monitor_threads[t].response_times_list),
                     !.responses = mon_log.responses,
                     !.errors = mon_log.errors,
                     !.calls = mon_log.calls]
    /\ Goto(t, "idle")
    /\ UNCHANGED <<max_samples, _response_times, _analysis_times, _request_count,
                   _error_count, beside_threads>>

\* As Release, but the call returns with the lock still held.
Release_keeps_lock(t) ==
    /\ At(t, "release")
    /\ _lock' = _lock
    /\ mon_log' = [NoMonitorCall EXCEPT
                     !.op = monitor_threads[t].op,
                     !.analysis_type = monitor_threads[t].analysis_type,
                     !.duration = monitor_threads[t].duration,
                     !.responses = mon_log.responses +
                         (IF monitor_threads[t].op = "record_response_time"
                          THEN 1 ELSE 0),
                     !.errors = mon_log.errors +
                         (IF monitor_threads[t].op = "record_error" THEN 1 ELSE 0),
                     !.calls = mon_log.calls]
    /\ Goto(t, "idle")
    /\ UNCHANGED <<max_samples, _response_times, _analysis_times, _request_count,
                   _error_count, beside_threads>>

\* The end of a with block of a record call: the lock is released and the
\* call returns.
Release(t) ==
    /\ At(t, "release")
    /\ _lock' = Unlocked
    /\ mon_log' = [NoMonitorCall EXCEPT
                     !.op = monitor_threads[t].op,
                     !.analysis_type = monitor_threads[t].analysis_type,
                     !.duration = monitor_threads[t].duration,
                     !.responses = mon_log.responses +
                         (IF monitor_threads[t].op = "record_response_time"
                          THEN 1 ELSE 0),
                     !.errors = mon_log.errors +
                         (IF monitor_threads[t].op = "record_error" THEN 1 ELSE 0),
                     !.calls = mon_log.calls]
    /\ Goto(t, "idle")
    /\ UNCHANGED <<max_samples, _response_times, _analysis_times, _request_count,
                   _error_count, beside_threads>>

NextMonThreads ==
    \E t \in Threads :
        \/ Call(t)
        \/ Acquire(t)
        \/ AppendResponseTime(t)
        \/ LoadRequestCount(t)
        \/ StoreRequestCount(t)
        \/ AppendAnalysisTime(t)
        \/ LoadErrorCount(t)
        \/ StoreErrorCount(t)
        \/ ReadResponseTimes(t)
        \/ ReadAnalysisTimes(t)
        \/ ReturnStats(t)
        \/ Release(t)

SpecMonThreads == InitMon /\ [][NextMonThreads]_vars

\* A step of thread t inside a call of the recorder.
Runs(t) ==
    \/ Acquire(t)
    \/ AppendResponseTime(t)
    \/ LoadRequestCount(t)
    \/ StoreRequestCount(t)
    \/ AppendAnalysisTime(t)
    \/ LoadErrorCount(t)
    \/ StoreErrorCount(t)
    \/ ReadResponseTimes(t)
    \/ ReadAnalysisTimes(t)
    \/ ReturnStats(t)
    \/ Release(t)

\* The interpreter gives every thread that can run its turn: a thread inside
\* a call that stays able to take its next step takes it.  Nothing makes a
\* thread call the recorder.
FairMonThreads == \A t \in Threads : WF_vars(Runs(t))

\* The size of the window has no part in the locking.
InitMonThreadsFair ==
    /\ InitMon
    /\ max_samples = 1

SpecMonThreadsFair ==
    InitMonThreadsFair /\ [][NextMonThreads]_vars /\ FairMonThreads

\* --------------------------------------------------- the cache under threads
\* The analysis tasks and the endpoints call the cache from several threads;
\* the cache has no lock.  A thread runs one statement at a step; x += 1 is a
\* read and a write; del d[k] and d[k] raise KeyError when k is not in d; the
\* next item of a dict iterator raises RuntimeError when the size of the dict
\* has changed since the iterator was made.  Another thread runs between two
\* turns of a loop, not between the making of an iterator and its first item.
\* A call that has returned keeps its operation, its key and what it
\* returned or raised.  A thread keeps the number of its calls (calls), the
\* number of times it has run the wrapped function (computes) and the last
\* result of it (result), whether a call of it has raised (failed), whether
\* it has called the cache other than through a decorated function (plain),
\* and the keys of its calls (keys).
ThreadTriples == Codes \X AnalysedFilenames \X AnalysisTypes
ThreadValues == {DictV("score" :> IntV(0))}

\* What the wrapped function returns when thread t runs it.
ComputedBy(t) == DictV("score" :> IntV(t))

Th(t) == cache_threads[t]

Upd(t, th) == cache_threads' = [cache_threads EXCEPT ![t] = th]

CallsMade == Sum([i \in 1..Cardinality(CacheThreads) |-> cache_threads[i].calls])

shared == <<_cache, _access_times, _hit_count, _miss_count>>

beside_cache_threads == <<config, now, last, written, monitor_vars,
                          percentile_call, monitor_threads>>

\* The call is over: its local variables are gone.
Over(th) ==
    [NoCacheThread EXCEPT !.op = th.op, !.cache_key = th.cache_key,
                          !.result = IF th.op = "memo" THEN th.result ELSE NoneVal,
                          !.calls = th.calls, !.computes = th.computes,
                          !.failed = th.failed, !.plain = th.plain,
                          !.keys = th.keys]

\* The exception leaves the call, and the wrapper when the call is the
\* wrapper's.
Raised(th, exception) ==
    [Over(th) EXCEPT !.raised = exception, !.failed = TRUE]

\* get returns value: to the caller, or into the wrapper (lines 187-189).
GetReturns(th, value) ==
    IF th.op = "memo" /\ value = NoneVal
    THEN [th EXCEPT !.pc = "memo_start", !.cache_entry = NoneVal, !.count = 0]
    ELSE [Over(th) EXCEPT !.ret = value]

\* set returns: to the caller, or into the wrapper, which returns
\* cache_result (line 217).
SetReturns(th) ==
    [Over(th) EXCEPT !.ret = IF th.op = "memo" THEN th.result ELSE NoneVal]

\* Thread t calls get, set, clear_cache, get_cache_stats or a decorated
\* function.
CacheCall(t) ==
    /\ Th(t).pc = "idle"
    /\ CallsMade < MaxCalls
    /\ \E op \in {"get", "set", "clear", "stats", "memo"},
          triple \in ThreadTriples, result \in ThreadValues :
          Upd(t, [NoCacheThread EXCEPT
                    !.pc = CASE op \in {"get", "memo"} -> "get_in"
                             [] op = "set" -> "set_begin"
                             [] op = "clear" -> "clear_cache"
                             [] op = "stats" -> "stats_total",
                    !.op = op,
                    !.triple = IF op \in {"get", "set", "memo"}
                               THEN triple ELSE <<"", "", "">>,
                    !.cache_key = IF op \in {"get", "set", "memo"}
                                  THEN KeyOf(triple) ELSE "",
                    !.result = CASE op = "set" -> result
                                 [] op = "memo" -> Th(t).result
                                 [] OTHER -> NoneVal,
                    !.calls = Th(t).calls + 1,
                    !.computes = Th(t).computes,
                    !.failed = Th(t).failed,
                    !.plain = Th(t).plain \/ op # "memo",
                    !.keys = Th(t).keys \cup
                               (IF op \in {"get", "set", "memo"}
                                THEN {KeyOf(triple)} ELSE {})])
    /\ UNCHANGED <<shared, beside_cache_threads>>

\* lines 81-86: if not self.cache_enabled; if cache_key in self._cache
GetIn(t) ==
    /\ Th(t).pc = "get_in"
    /\ Upd(t, IF ~cache_enabled THEN GetReturns(Th(t), NoneVal)
              ELSE IF Th(t).cache_key \in DOMAIN _cache
              THEN [Th(t) EXCEPT !.pc = "get_entry"]
              ELSE [Th(t) EXCEPT !.pc = "get_miss_load"])
    /\ UNCHANGED <<shared, beside_cache_threads>>

\* lines 87-89: cache_entry = self._cache[cache_key];
\* if self._is_cache_valid(cache_entry)
GetEntry(t) ==
    /\ Th(t).pc = "get_entry"
    /\ Upd(t, IF Th(t).cache_key \notin DOMAIN _cache
              THEN Raised(Th(t), "KeyError")
              ELSE IF _is_cache_valid(cache_enabled, cache_ttl,
                                      _cache[Th(t).cache_key], now)
              THEN [Th(t) EXCEPT !.pc = "get_touch",
                                 !.cache_entry = _cache[Th(t).cache_key]]
              ELSE [Th(t) EXCEPT !.pc = "get_del"])
    /\ UNCHANGED <<shared, beside_cache_threads>>

\* line 91: self._access_times[cache_key] = time.time()
GetTouch(t) ==
    /\ Th(t).pc = "get_touch"
    /\ _access_times' = ItemsSet(_access_times, Th(t).cache_key, now)
    /\ Upd(t, [Th(t) EXCEPT !.pc = "get_hit_load"])
    /\ UNCHANGED <<_cache, _hit_count, _miss_count, beside_cache_threads>>

\* line 92: self._hit_count += 1, the read
GetHitLoad(t) ==
    /\ Th(t).pc = "get_hit_load"
    /\ Upd(t, [Th(t) EXCEPT !.pc = "get_hit_store", !.count = _hit_count])
    /\ UNCHANGED <<shared, beside_cache_threads>>

\* lines 92-95: self._hit_count += 1, the write; return cache_entry.get("result")
GetHitStore(t) ==
    /\ Th(t).pc = "get_hit_store"
    /\ _hit_count' = Th(t).count + 1
    /\ Upd(t, GetReturns(Th(t), Th(t).cache_entry.result))
    /\ UNCHANGED <<_cache, _access_times, _miss_count, beside_cache_threads>>

\* line 98: del self._cache[cache_key]
GetDel(t) ==
    /\ Th(t).pc = "get_del"
    /\ IF Th(t).cache_key \in DOMAIN _cache
       THEN /\ _cache' = FcnDel(_cache, {Th(t).cache_key})
            /\ Upd(t, [Th(t) EXCEPT !.pc = "get_del_access_in"])
       ELSE /\ UNCHANGED _cache
            /\ Upd(t, Raised(Th(t), "KeyError"))
    /\ UNCHANGED <<_access_times, _hit_count, _miss_count, beside_cache_threads>>

\* line 99: if cache_key in self._access_times
GetDelAccessIn(t) ==
    /\ Th(t).pc = "get_del_access_in"
    /\ Upd(t, IF Th(t).cache_key \in ItemKeys(_access_times)
              THEN [Th(t) EXCEPT !.pc = "get_del_access"]
              ELSE [Th(t) EXCEPT !.pc = "get_miss_load"])
    /\ UNCHANGED <<shared, beside_cache_threads>>

\* line 100: del self._access_times[cache_key]
GetDelAccess(t) ==
    /\ Th(t).pc = "get_del_access"
    /\ IF Th(t).cache_key \in ItemKeys(_access_times)
       THEN /\ _access_times' = ItemsDel(_access_times, {Th(t).cache_key})
            /\ Upd(t, [Th(t) EXCEPT !.pc = "get_miss_load"])
       ELSE /\ UNCHANGED _access_times
            /\ Upd(t, Raised(Th(t), "KeyError"))
    /\ UNCHANGED <<_cache, _hit_count, _miss_count, beside_cache_threads>>

\* line 102: self._miss_count += 1, the read
GetMissLoad(t) ==
    /\ Th(t).pc = "get_miss_load"
    /\ Upd(t, [Th(t) EXCEPT !.pc = "get_miss_store", !.count = _miss_count])
    /\ UNCHANGED <<shared, beside_cache_threads>>

\* lines 102-104: self._miss_count += 1, the write; return None
GetMissStore(t) ==
    /\ Th(t).pc = "get_miss_store"
    /\ _miss_count' = Th(t).count + 1
    /\ Upd(t, GetReturns(Th(t), NoneVal))
    /\ UNCHANGED <<_cache, _access_times, _hit_count, beside_cache_threads>>

\* lines 192-193: start_time = time.time(); the wrapped function starts
MemoStart(t) ==
    /\ Th(t).pc = "memo_start"
    /\ Upd(t, [Th(t) EXCEPT !.pc = "memo_finish", !.start_time = now])
    /\ UNCHANGED <<shared, beside_cache_threads>>

\* lines 193-212: the wrapped function returns; execution_time; cache_result
MemoFinish(t) ==
    /\ Th(t).pc = "memo_finish"
    /\ now - Th(t).start_time <= MaxCompute
    /\ Upd(t, [Th(t) EXCEPT
                 !.pc = "set_begin",
                 !.computes = @ + 1,
                 !.result = Annotate(ComputedBy(t), Th(t).triple[3],
                                     (now - Th(t).start_time) * 1000)])
    /\ UNCHANGED <<shared, beside_cache_threads>>

\* The loop's body on the item of key (lines 52-53).
SweepBody(th, key) ==
    [th EXCEPT !.pc = "sweep_next",
               !.seen = @ \cup {key},
               !.expired_keys =
                   IF (th.current_time - _cache[key].timestamp) > cache_ttl
                   THEN Append(@, key) ELSE @]

\* lines 108-114, 48-53: if not self.cache_enabled; current_time; the
\* iterator over self._cache.items() is made and gives its first item
SetBegin(t) ==
    /\ Th(t).pc = "set_begin"
    /\ Upd(t, IF ~cache_enabled THEN SetReturns(Th(t))
              ELSE IF DOMAIN _cache = {}
              THEN [Th(t) EXCEPT !.pc = "sweep_del", !.current_time = now]
              ELSE SweepBody([Th(t) EXCEPT
                                !.current_time = now,
                                !.iter_len = Cardinality(DOMAIN _cache)],
                             CHOOSE k \in DOMAIN _cache : TRUE))
    /\ UNCHANGED <<shared, beside_cache_threads>>

\* lines 51-53: the next item of the iterator, and the loop's body
SweepNext(t) ==
    /\ Th(t).pc = "sweep_next"
    /\ Upd(t, IF Cardinality(DOMAIN _cache) # Th(t).iter_len
              THEN Raised(Th(t), "RuntimeError")
              ELSE IF (DOMAIN _cache) \ Th(t).seen = {}
              THEN [Th(t) EXCEPT !.pc = "sweep_del", !.seen = {}, !.iter_len = 0]
              ELSE SweepBody(Th(t), CHOOSE k \in (DOMAIN _cache) \ Th(t).seen : TRUE))
    /\ UNCHANGED <<shared, beside_cache_threads>>

\* lines 55-56: for key in expired_keys: del self._cache[key]
SweepDel(t) ==
    /\ Th(t).pc = "sweep_del"
    /\ IF Th(t).expired_keys = <<>>
       THEN /\ UNCHANGED _cache
            /\ Upd(t, [Th(t) EXCEPT !.pc = "limit"])
       ELSE IF Head(Th(t).expired_keys) \in DOMAIN _cache
       THEN /\ _cache' = FcnDel(_cache, {Head(Th(t).expired_keys)})
            /\ Upd(t, [Th(t) EXCEPT !.pc = "sweep_del_access_in"])
       ELSE /\ UNCHANGED _cache
            /\ Upd(t, Raised(Th(t), "KeyError"))
    /\ UNCHANGED <<_access_times, _hit_count, _miss_count, beside_cache_threads>>

\* line 57: if key in self._access_times
SweepDelAccessIn(t) ==
    /\ Th(t).pc = "sweep_del_access_in"
    /\ Upd(t, IF Head(Th(t).expired_keys) \in ItemKeys(_access_times)
              THEN [Th(t) EXCEPT !.pc = "sweep_del_access"]
              ELSE [Th(t) EXCEPT !.pc = "sweep_del",
                                 !.expired_keys = Tail(@)])
    /\ UNCHANGED <<shared, beside_cache_threads>>

\* line 58: del self._access_times[key]
SweepDelAccess(t) ==
    /\ Th(t).pc = "sweep_del_access"
    /\ IF Head(Th(t).expired_keys) \in ItemKeys(_access_times)
       THEN /\ _access_times' = ItemsDel(_access_times, {Head(Th(t).expired_keys)})
            /\ Upd(t, [Th(t) EXCEPT !.pc = "sweep_del",
                                    !.expired_keys = Tail(@)])
       ELSE /\ UNCHANGED _access_times
            /\ Upd(t, Raised(Th(t), "KeyError"))
    /\ UNCHANGED <<_cache, _hit_count, _miss_count, beside_cache_threads>>

\* lines 61-66: if len(self._cache) > self.max_cache_size: keys_to_remove
Limit(t) ==
    /\ Th(t).pc = "limit"
    /\ Upd(t, IF Cardinality(DOMAIN _cache) > max_cache_size
              THEN [Th(t) EXCEPT
                      !.pc = "evict_in",
                      !.keys_to_remove =
                          [i \in 1..Len(Prefix(SortedByTime(_access_times),
                                        Cardinality(DOMAIN _cache) - max_cache_size))
                             |-> SortedByTime(_access_times)[i].key]]
              ELSE [Th(t) EXCEPT !.pc = "set_put"])
    /\ UNCHANGED <<shared, beside_cache_threads>>

\* lines 68-69: for key in keys_to_remove: if key in self._cache
EvictIn(t) ==
    /\ Th(t).pc = "evict_in"
    /\ Upd(t, IF Th(t).keys_to_remove = <<>>
              THEN [Th(t) EXCEPT !.pc = "set_put"]
              ELSE IF Head(Th(t).keys_to_remove) \in DOMAIN _cache
              THEN [Th(t) EXCEPT !.pc = "evict_del"]
              ELSE [Th(t) EXCEPT !.pc = "evict_access_in"])
    /\ UNCHANGED <<shared, beside_cache_threads>>

\* line 70: del self._cache[key]
EvictDel(t) ==
    /\ Th(t).pc = "evict_del"
    /\ IF Head(Th(t).keys_to_remove) \in DOMAIN _cache
       THEN /\ _cache' = FcnDel(_cache, {Head(Th(t).keys_to_remove)})
            /\ Upd(t, [Th(t) EXCEPT !.pc = "evict_access_in"])
       ELSE /\ UNCHANGED _cache
            /\ Upd(t, Raised(Th(t), "KeyError"))
    /\ UNCHANGED <<_access_times, _hit_count, _miss_count, beside_cache_threads>>

\* line 71: if key in self._access_times
EvictAccessIn(t) ==
    /\ Th(t).pc = "evict_access_in"
    /\ Upd(t, IF Head(Th(t).keys_to_remove) \in ItemKeys(_access_times)
              THEN [Th(t) EXCEPT !.pc = "evict_access_del"]
              ELSE [Th(t) EXCEPT !.pc = "evict_in",
                                 !.keys_to_remove = Tail(@)])
    /\ UNCHANGED <<shared, beside_cache_threads>>

\* line 72: del self._access_times[key]
EvictAccessDel(t) ==
    /\ Th(t).pc = "evict_access_del"
    /\ IF Head(Th(t).keys_to_remove) \in ItemKeys(_access_times)
       THEN /\ _access_times' = ItemsDel(_access_times, {Head(Th(t).keys_to_remove)})
            /\ Upd(t, [Th(t) EXCEPT !.pc = "evict_in",
                                    !.keys_to_remove = Tail(@)])
       ELSE /\ UNCHANGED _access_times
            /\ Upd(t, Raised(Th(t), "KeyError"))
    /\ UNCHANGED <<_cache, _hit_count, _miss_count, beside_cache_threads>>

\* lines 116-124: cache_entry = {...}; self._cache[cache_key] = cache_entry
SetPut(t) ==
    /\ Th(t).pc = "set_put"
    /\ _cache' = FcnSet(_cache, Th(t).cache_key,
                        [result |-> Th(t).result,
                         timestamp |-> now,
                         filename |-> Th(t).triple[2],
                         analysis_type |-> Th(t).triple[3],
                         code_size |-> Len(Th(t).triple[1])])
    /\ Upd(t, [Th(t) EXCEPT !.pc = "set_access"])
    /\ UNCHANGED <<_access_times, _hit_count, _miss_count, beside_cache_threads>>

\* line 125: self._access_times[cache_key] = time.time()
SetAccess(t) ==
    /\ Th(t).pc = "set_access"
    /\ _access_times' = ItemsSet(_access_times, Th(t).cache_key, now)
    /\ Upd(t, SetReturns(Th(t)))
    /\ UNCHANGED <<_cache, _hit_count, _miss_count, beside_cache_threads>>

\* line 162: self._cache.clear()
ClearEntries(t) ==
    /\ Th(t).pc = "clear_cache"
    /\ _cache' = EmptyFcn
    /\ Upd(t, [Th(t) EXCEPT !.pc = "clear_access"])
    /\ UNCHANGED <<_access_times, _hit_count, _miss_count, beside_cache_threads>>

\* line 163: self._access_times.clear()
ClearAccessTimes(t) ==
    /\ Th(t).pc = "clear_access"
    /\ _access_times' = <<>>
    /\ Upd(t, [Th(t) EXCEPT !.pc = "clear_hits"])
    /\ UNCHANGED <<_cache, _hit_count, _miss_count, beside_cache_threads>>

\* line 164: self._hit_count = 0
ClearHitCount(t) ==
    /\ Th(t).pc = "clear_hits"
    /\ _hit_count' = 0
    /\ Upd(t, [Th(t) EXCEPT !.pc = "clear_misses"])
    /\ UNCHANGED <<_cache, _access_times, _miss_count, beside_cache_threads>>

\* lines 165-166: self._miss_count = 0; return
ClearMissCount(t) ==
    /\ Th(t).pc = "clear_misses"
    /\ _miss_count' = 0
    /\ Upd(t, Over(Th(t)))
    /\ UNCHANGED <<_cache, _access_times, _hit_count, beside_cache_threads>>

\* line 131: total_requests = self._hit_count + self._miss_count
StatsTotal(t) ==
    /\ Th(t).pc = "stats_total"
    /\ Upd(t, [Th(t) EXCEPT !.pc = "stats_dict",
                            !.total_requests = _hit_count + _miss_count])
    /\ UNCHANGED <<shared, beside_cache_threads>>

\* lines 132-145: hit_rate and the returned dict
StatsDict(t) ==
    /\ Th(t).pc = "stats_dict"
    /\ Upd(t, [Over(Th(t)) EXCEPT
                 !.ret = [get_cache_stats(Store, cache_enabled, cache_ttl,
                                          max_cache_size)
                            EXCEPT !.total_requests = Th(t).total_requests,
                                   !.hit_rate_percent =
                                       IF Th(t).total_requests > 0
                                       THEN RoundedPercent(_hit_count,
                                                           Th(t).total_requests)
                                       ELSE 0]])
    /\ UNCHANGED <<shared, beside_cache_threads>>

ThreadStep(t) ==
    \/ CacheCall(t)
    \/ GetIn(t) \/ GetEntry(t) \/ GetTouch(t)
    \/ GetHitLoad(t) \/ GetHitStore(t)
    \/ GetDel(t) \/ GetDelAccessIn(t) \/ GetDelAccess(t)
    \/ GetMissLoad(t) \/ GetMissStore(t)
    \/ MemoStart(t) \/ MemoFinish(t)
    \/ SetBegin(t) \/ SweepNext(t)
    \/ SweepDel(t) \/ SweepDelAccessIn(t) \/ SweepDelAccess(t)
    \/ Limit(t) \/ EvictIn(t) \/ EvictDel(t) \/ EvictAccessIn(t) \/ EvictAccessDel(t)
    \/ SetPut(t) \/ SetAccess(t)
    \/ ClearEntries(t) \/ ClearAccessTimes(t) \/ ClearHitCount(t) \/ ClearMissCount(t)
    \/ StatsTotal(t) \/ StatsDict(t)

\* Time passes between calls and while a wrapped function runs: the
\* statements of the cache are quicker than one tick of the clock.
TickThreads ==
    /\ \A t \in CacheThreads : Th(t).pc \in {"idle", "memo_finish"}
    /\ Tick

NextCacheThreads == (\E t \in CacheThreads : ThreadStep(t)) \/ TickThreads

\* The enabled cache called from threads.
InitCacheThreads ==
    /\ Init
    /\ cache_enabled
    /\ max_cache_size = 1

SpecCacheThreads == InitCacheThreads /\ [][NextCacheThreads]_vars

\* ------------------------------------------- the cache in the PR analysis
\* _analyze_pr_changes_comprehensive calls the analyzers on each file's patch
\* and reads their results as those of functions decorated with
\* cached_analysis.  InsightTypes are the analysis types of the AI analyzer
\* and of the smart analyzer.
InsightTypes == {"ai_analysis", "smart_analysis"}

InsightCodes == {"a"}

Insight == DictV("type" :> StrV("ai_complexity"))

\* What an analyzer may return: a list of insights.
InsightReturns == {ListV(<<>>), ListV(<<Insight>>)}

InsightOutcomes == InsightReturns \cup {Raise}

\* for insight in insights: if isinstance(insight, dict):
\*     insight['filename'] = file.filename
\* The result is the list once the loop has run.
add_filename(insights, filename) ==
    ListV([i \in 1..Len(insights.items) |->
              IF IsDict(insights.items[i])
              THEN DictSet(insights.items[i], "filename", StrV(filename))
              ELSE insights.items[i]])

\* The object ai_result refers to once the AI block has put the filename on
\* its insights: the insights are those of ai_result['insights'] when
\* ai_result is a dict with that key, ai_result itself when it is a list.
ai_result_after(ai_result, filename) ==
    IF HasField(ai_result, "insights") /\ IsList(ai_result.fields["insights"])
    THEN DictSet(ai_result, "insights",
                 add_filename(ai_result.fields["insights"], filename))
    ELSE IF IsList(ai_result) THEN add_filename(ai_result, filename)
    ELSE ai_result

\* get_cache_entries_by_type: every entry in _cache counts one for its
\* analysis type.
get_cache_entries_by_type(cache) ==
    LET types == {cache[k].analysis_type : k \in DOMAIN cache}
    IN  DictV([ty \in types |->
                  IntV(Cardinality({k \in DOMAIN cache : cache[k].analysis_type = ty}))])

\* One analyzer block of the loop over the PR's files: the call of the
\* memoized analyzer and, when mutates, the loop that puts the filename on the
\* insights of the result.  The wrapper returns the object the cache holds
\* (cache_result on a miss, the entry's result on a hit), so what the caller
\* writes into it is written into the entry.
AnalyzerBlock(op, analysis_type, mutates) ==
    /\ last.seq < MaxCalls
    /\ \E code \in InsightCodes, filename \in AnalysedFilenames,
          outcome \in InsightOutcomes :
        \E w \in {wrapper(Store, cache_enabled, cache_ttl, max_cache_size, code,
                          filename, analysis_type, outcome,
                          <<now, now, now, now, now, now, now>>)},
           g \in {get(Store, cache_enabled, cache_ttl, code, filename,
                      analysis_type, now, now)} :
        LET key == _generate_cache_key(code, filename, analysis_type)
            byGet == (DOMAIN _cache) \ (DOMAIN g.store.cache)
            stored == w.computed /\ ~w.raised /\ cache_enabled
            bySet == IF stored
                     THEN RemovedBySet(g.store, cache_enabled, cache_ttl,
                                       max_cache_size, now)
                     ELSE {}
            shared_object == ~w.raised /\ w.ret # NoneVal
                                /\ key \in DOMAIN w.store.cache
        IN  /\ _cache' = IF mutates /\ shared_object
                         THEN [w.store.cache EXCEPT
                                 ![key].result = ai_result_after(w.ret, filename)]
                         ELSE w.store.cache
            /\ _access_times' = w.store.access
            /\ _hit_count' = w.store.hits
            /\ _miss_count' = w.store.misses
            /\ last' = [NoCall EXCEPT
                          !.seq = last.seq + 1, !.op = op,
                          !.triple = Triple(code, filename, analysis_type),
                          !.key = key, !.ret = w.ret, !.hit = w.hit,
                          !.computed = w.computed, !.raised = w.raised,
                          !.t = now, !.age = AgeAt(_cache, key, now),
                          !.removed = byGet \cup bySet,
                          !.gets = last.gets + 1]
            /\ written' = IF stored
                          THEN Remember(Forget(written, byGet \cup bySet),
                                        Triple(code, filename, analysis_type),
                                        w.ret, now)
                          ELSE Forget(written, byGet)
    /\ UNCHANGED <<config, now, beside_cache>>

\* The AI analysis of one file.
AnalyzeAI == AnalyzerBlock("ai", "ai_analysis", TRUE)

\* The smart analysis of one file: a dict taken from the wrapper never has
\* cached = True, so smart_insights is [] and nothing is written into it.
AnalyzeSmart == AnalyzerBlock("smart", "smart_analysis", FALSE)

\* The cache-stats endpoint: one call of get_cache_entries_by_type.
GetCacheEntriesByType ==
    /\ last.seq < MaxCalls
    /\ last' = [NoCall EXCEPT
                  !.seq = last.seq + 1, !.op = "by_type",
                  !.ret = get_cache_entries_by_type(_cache),
                  !.t = now, !.gets = last.gets]
    /\ UNCHANGED <<config, _cache, _access_times, _hit_count, _miss_count, now,
                   written, beside_cache>>

NextAnalysis == AnalyzeAI \/ AnalyzeSmart \/ GetCacheEntriesByType \/ Tick

\* The cache as the PR analysis and the analytics endpoint use it.
SpecAnalysis == Init /\ [][NextAnalysis]_vars

\* ----------------------------------------------------------------- claims
\* A step that is one call of the named operation.
GetStep == last'.seq = last.seq + 1 /\ last'.op = "get"
SetStep == last'.seq = last.seq + 1 /\ last'.op = "set"
MemoStep == last'.seq = last.seq + 1 /\ last'.op = "memo"

\* Two calls of the wrapper in a row with the same arguments, the first of
\* which invoked the wrapped function and returned.
SecondOfTwoCalls ==
    /\ MemoStep
    /\ last.op = "memo"
    /\ last.triple = last'.triple
    /\ last.computed
    /\ ~last.raised

\* C1: on an enabled cache, when set has returned the number of stored entries
\* is at most max_cache_size.
C1_SizeWithinCapacityAfterSet ==
    (cache_enabled /\ last.op = "set")
        => Cardinality(DOMAIN _cache) <= max_cache_size

C3_ExpiredEntryIsAMiss ==
    [][(GetStep /\ cache_enabled /\ last'.key \in DOMAIN _cache) =>
        IF last'.t - _cache[last'.key].timestamp >= cache_ttl
        THEN /\ last'.ret = NoneVal
             /\ ~last'.hit
             /\ last'.key \notin DOMAIN _cache'
             /\ last'.key \notin ItemKeys(_access_times')
             /\ _miss_count' = _miss_count + 1
             /\ _hit_count' = _hit_count
        ELSE /\ last'.hit
             /\ last'.ret = _cache[last'.key].result
             /\ _hit_count' = _hit_count + 1
             /\ _miss_count' = _miss_count]_vars

\* A get found an entry of age exactly ttl, removed it and returned None.
C3_Witness ==
    /\ last.op = "get"
    /\ last.age = cache_ttl
    /\ last.removed = {last.key}
    /\ last.ret = NoneVal
    /\ _miss_count > 0

\* C4: on an enabled cache with ttl > 0, a get for a triple that was set less
\* than ttl ago, whose entry was not evicted or cleared since, returns the value
\* most recently set for that triple, counts one hit and no miss, leaves every
\* entry as it was and sets the entry's access time to the current time.
C4_GetReturnsLatestSet ==
    [][(/\ GetStep
        /\ cache_enabled
        /\ cache_ttl > 0
        /\ last'.triple \in DOMAIN written
        /\ last'.t - written[last'.triple].time < cache_ttl) =>
        /\ last'.ret = written[last'.triple].value
        /\ _hit_count' = _hit_count + 1
        /\ _miss_count' = _miss_count
        /\ _cache' = _cache
        /\ ItemKeys(_access_times') = ItemKeys(_access_times)
        /\ \A k \in ItemKeys(_access_times) :
              AccessTime(_access_times', k) =
                  IF k = last'.key THEN now' ELSE AccessTime(_access_times, k)]_vars

\* C5: the second of two identical calls of the wrapper, made while the entry
\* the first one stored has not expired, does not invoke the wrapped function.
C5_SecondCallDoesNotCompute ==
    [][(/\ SecondOfTwoCalls
        /\ cache_enabled
        /\ last'.key \in DOMAIN _cache
        /\ last'.t - _cache[last'.key].timestamp < cache_ttl) =>
        ~last'.computed]_vars

\* C6: the value the wrapper serves from the cache carries cached = true, and
\* the value of the call that computed it carries cached = false (stated for
\* the results the wrapper annotates, lists and dicts).
C6_CachedFlagOnHit ==
    [][(SecondOfTwoCalls /\ ~last'.computed /\ IsDict(last.ret)) =>
        /\ HasField(last.ret, "cached")
        /\ last.ret.fields["cached"] = BoolV(FALSE)
        /\ HasField(last'.ret, "cached")
        /\ last'.ret.fields["cached"] = BoolV(TRUE)]_vars

\* C7 as stated: when the wrapped function raises, the entries of the cache
\* are exactly as they were before the call.
C7_EntriesUntouchedOnFailure ==
    [][(MemoStep /\ last'.raised) => _cache' = _cache]_vars

\* C7 as amended: when the wrapped function raises, the error reaches the
\* caller and nothing is stored: the entries are as they were before the call,
\* except that an entry of that key whose age is >= ttl is removed; an
\* identical call made next invokes the wrapped function again.
C7_NothingStoredOnFailure ==
    [][/\ (MemoStep /\ last'.raised) =>
            /\ last'.computed
            /\ last'.ret = NoneVal
            /\ _cache' =
                 IF /\ last'.key \in DOMAIN _cache
                    /\ last'.t - _cache[last'.key].timestamp >= cache_ttl
                 THEN FcnDel(_cache, {last'.key})
                 ELSE _cache
       /\ (MemoStep /\ last.op = "memo" /\ last.raised
             /\ last.triple = last'.triple) => last'.computed]_vars

\* A call of the wrapper in which the wrapped function raised, after the
\* lookup had removed the key's expired entry.
C7_Witness ==
    /\ last.op = "memo"
    /\ last.raised
    /\ last.removed = {last.key}
    /\ last.age >= cache_ttl

\* C8: whatever the wrapped function returns, the wrapper returns and stores a
\* record with the fields cached, analysis_type and execution_time_ms beside
\* the payload.
C8_UniformResultShape ==
    (last.op = "memo" /\ last.computed /\ ~last.raised) =>
        /\ IsDict(last.ret)
        /\ {"cached", "analysis_type", "execution_time_ms"}
               \subseteq DOMAIN last.ret.fields
        /\ cache_enabled => /\ last.key \in DOMAIN _cache
                            /\ _cache[last.key].result = last.ret

\* C9: on a disabled cache every get returns None and every set leaves the
\* stored entries as they are.
C9_DisabledCacheIsInert ==
    [][~cache_enabled =>
        /\ GetStep => (last'.ret = NoneVal /\ ~last'.hit)
        /\ SetStep => (_cache' = _cache /\ _access_times' = _access_times)]_vars

\* A set has returned on a disabled cache, after an earlier call.
C9_Witness ==
    /\ ~cache_enabled
    /\ last.op = "set"
    /\ last.seq >= 2
    /\ DOMAIN _cache = {}

\* C10: on a disabled cache every get adds one to the miss counter, so the
\* statistics count it as a lookup and a miss.
C10_DisabledGetCountsAMiss ==
    [][(~cache_enabled /\ GetStep) =>
        /\ _miss_count' = _miss_count + 1
        /\ _hit_count' = 0]_vars

\* What get_cache_stats reports in the current state.
Stats == get_cache_stats(Store, cache_enabled, cache_ttl, max_cache_size)

\* C11: right after clear_cache, get_cache_stats reports no hit, no miss, no
\* lookup and size zero.
C11_StatsZeroAfterClear ==
    last.op = "clear" =>
        /\ Stats.cache_hits = 0
        /\ Stats.cache_misses = 0
        /\ Stats.total_requests = 0
        /\ Stats.hit_rate_percent = 0
        /\ Stats.cache_size = 0

\* clear_cache has returned on a cache that held entries and had counted
\* lookups.
C11_Witness ==
    /\ last.op = "clear"
    /\ last.lookups > 0
    /\ last.removed # {}

\* C12 as stated: get_cache_stats reports h + m lookups and the hit rate
\* h / (h + m) x 100 exactly (in hundredths: rate x (h + m) = h x 10000), and 0
\* when there was no lookup.
C12_HitRateExact ==
    /\ Stats.total_requests = _hit_count + _miss_count
    /\ _hit_count + _miss_count = 0 => Stats.hit_rate_percent = 0
    /\ _hit_count + _miss_count > 0 =>
         Stats.hit_rate_percent * (_hit_count + _miss_count) = _hit_count * 10000

\* C12 as amended: the hit rate reported is h / (h + m) x 100 rounded to two
\* decimal places (at most half a hundredth away from it), and 0 when there
\* was no lookup.
C12_HitRateRounded ==
    LET total == _hit_count + _miss_count
        diff == Stats.hit_rate_percent * total - _hit_count * 10000
    IN  /\ Stats.total_requests = total
        /\ Stats.cache_hits = _hit_count
        /\ Stats.cache_misses = _miss_count
        /\ total = 0 => Stats.hit_rate_percent = 0
        /\ 2 * diff <= total
        /\ -2 * diff <= total

\* One hit and two misses: the rate 33.33 is not a third of 100.
C12_Witness ==
    /\ _hit_count = 1
    /\ _miss_count = 2
    /\ Stats.hit_rate_percent = 3333

\* C13: two calls with different (code, filename, analysis_type) triples use
\* different keys.
C13_DistinctTriplesDistinctKeys ==
    [][(/\ last'.seq = last.seq + 1
        /\ last.op \in {"get", "set"}
        /\ last'.op \in {"get", "set"}
        /\ last.triple # last'.triple) => last.key # last'.key]_vars

\* The windows the recorder has made.
Windows == {_response_times} \cup {_analysis_times[a] : a \in DOMAIN _analysis_times}

\* C14: every window of the recorder holds at most max_samples samples; a
\* record into a full window drops exactly the oldest sample and keeps the
\* others in order; the statistics are those of the samples in the windows,
\* while total_requests counts every response recorded.
C14_WindowsBoundedDropOldest ==
    [][/\ \A w \in Windows' : Len(w) <= max_samples
       /\ (mon_log'.op = "record_response_time" /\ Len(_response_times) = max_samples)
            => /\ Len(_response_times') = max_samples
               /\ \A i \in 1..(max_samples - 1) :
                     _response_times'[i] = _response_times[i + 1]
               /\ _response_times'[max_samples] = mon_log'.duration
       /\ \A a \in DOMAIN _analysis_times :
            (/\ mon_log'.op = "record_analysis_time"
             /\ mon_log'.analysis_type = a
             /\ Len(_analysis_times[a]) = max_samples)
            => /\ Len(_analysis_times'[a]) = max_samples
               /\ \A i \in 1..(max_samples - 1) :
                     _analysis_times'[a][i] = _analysis_times[a][i + 1]
               /\ _analysis_times'[a][max_samples] = mon_log'.duration
       /\ mon_log'.op = "get_performance_stats"
            => /\ mon_log'.ret.total_requests = mon_log.responses
               /\ _response_times # <<>> =>
                    /\ mon_log'.ret.response_times.min_ms =
                          100000 * min(_response_times)
                    /\ mon_log'.ret.response_times.max_ms =
                          100000 * max(_response_times)
                    /\ mon_log'.ret.response_times.avg_ms * Len(_response_times)
                          - 100000 * Sum(_response_times)
                            \in -(Len(_response_times) \div 2)..(Len(_response_times) \div 2)
               /\ \A a \in DOMAIN mon_log'.ret.analysis_breakdown :
                    mon_log'.ret.analysis_breakdown[a].count = Len(_analysis_times[a])
      ]_vars

\* Statistics taken after more responses were recorded than the window
\* holds, with a full window of an operation too.
C14_Witness ==
    /\ mon_log.op = "get_performance_stats"
    /\ mon_log.ret.total_requests > max_samples
    /\ Len(_response_times) = max_samples
    /\ max_samples > 1
    /\ _response_times[1] # _response_times[2]
    /\ \E a \in DOMAIN _analysis_times :
          mon_log.ret.analysis_breakdown[a].count = max_samples

\* C16 as stated: the error rate reported is errorCount / requestCount x 100
\* exactly (in hundredths: rate x requestCount = errorCount x 10000), and 0
\* when requestCount is 0.
C16_ErrorRateExact ==
    mon_log.op = "get_performance_stats" =>
        /\ _request_count = 0 => mon_log.ret.error_rate_percent = 0
        /\ _request_count > 0 =>
             mon_log.ret.error_rate_percent * _request_count = _error_count * 10000

\* C16 as amended: the error rate reported is errorCount / requestCount x 100
\* rounded to two decimal places, and 0 when requestCount is 0, even with
\* errors recorded; 3 errors and 10 responses give 30.
C16_ErrorRateRounded ==
    mon_log.op = "get_performance_stats" =>
        LET rate == mon_log.ret.error_rate_percent
            diff == rate * _request_count - _error_count * 10000
        IN  /\ mon_log.ret.error_count = mon_log.errors
            /\ mon_log.ret.total_requests = mon_log.responses
            /\ mon_log.responses = 0 => rate = 0
            /\ mon_log.responses > 0 =>
                 /\ 2 * diff <= mon_log.responses
                 /\ -2 * diff <= mon_log.responses
            /\ (mon_log.errors = 3 /\ mon_log.responses = 10) => rate = 3000

\* Statistics taken after 3 errors and 10 responses.
C16_Witness ==
    /\ mon_log.op = "get_performance_stats"
    /\ mon_log.errors = 3
    /\ mon_log.responses = 10
    /\ mon_log.ret.error_rate_percent = 3000

\* C15: for a non-empty list of n samples and p in {95, 99}, _percentile
\* returns the item at index min(floor(n x p / 100), n - 1) of the list sorted
\* ascending, that is a sample with at most that many samples below it and
\* more than that many samples not above it; for the list 1..10 it returns 10
\* for both.
C15_PercentileIsIndexedOrderStatistic ==
    (percentile_call.percentile \in Percentiles /\ percentile_call.data # <<>>) =>
        LET data == percentile_call.data
            n == Len(data)
            floor == (n * percentile_call.percentile) \div 100
            index == IF floor < n - 1 THEN floor ELSE n - 1
            r == percentile_call.ret
        IN  /\ r \in Elements(data)
            /\ Cardinality({i \in 1..n : data[i] < r}) <= index
            /\ Cardinality({i \in 1..n : data[i] <= r}) > index
            /\ data = <<1, 2, 3, 4, 5, 6, 7, 8, 9, 10>> => r = 10

\* The 95th percentile of 40, 39, .., 1 is the item at index 38 of 1..40,
\* which is not the largest.
C15_Witness ==
    /\ percentile_call.data = Descending(40)
    /\ percentile_call.percentile = 95
    /\ percentile_call.ret = 39

\* C17: with threads calling the recorder at the same time, once every call
\* has returned _request_count is the number of record_response_time calls
\* and _error_count the number of record_error calls, and every
\* get_performance_stats has read min(total_requests, max_samples) samples
\* from the window of response times.
C17_RecorderAtomic ==
    /\ (\A t \in Threads : monitor_threads[t].pc = "idle") =>
          /\ _request_count = mon_log.responses
          /\ _error_count = mon_log.errors
    /\ mon_log.op = "get_performance_stats" =>
          mon_log.samples = IF mon_log.ret.total_requests < max_samples
                            THEN mon_log.ret.total_requests ELSE max_samples

\* Statistics returned while a record_response_time call of another thread
\* waits for the lock, after more responses than the window holds.
C17_Witness ==
    /\ mon_log.op = "get_performance_stats"
    /\ mon_log.ret.total_requests > max_samples
    /\ \E t \in Threads :
          /\ monitor_threads[t].pc = "acquire"
          /\ monitor_threads[t].op = "record_response_time"

\* C18: a get call completes without raising an error, whatever get, set and
\* clear_cache calls of other threads run at the same time.
C18_GetNeverRaises ==
    \A t \in CacheThreads :
        (/\ cache_threads[t].op = "get"
         /\ \A u \in CacheThreads : cache_threads[u].op \in {"get", "set", "clear"})
            => cache_threads[t].raised = ""

\* clear_cache has emptied the entries and has not yet reset all the rest.
PartiallyCleared ==
    /\ \E t \in CacheThreads :
          cache_threads[t].pc \in {"clear_access", "clear_hits", "clear_misses"}
    /\ _cache = EmptyFcn
    /\ _access_times # <<>> \/ _hit_count # 0 \/ _miss_count # 0

\* Thread u reads the entries or the counters: the first statement of get or
\* a statement of get_cache_stats.
Reads(u) ==
    /\ cache_threads[u].op \in {"get", "stats"}
    /\ cache_threads[u].pc \in {"get_in", "stats_total", "stats_dict"}
    /\ cache_threads'[u].pc # cache_threads[u].pc

\* C19: no get or get_cache_stats call of another thread reads the cache
\* while clear_cache has emptied the entries but not yet reset the access
\* times and the counters.
C19_ClearIsAtomicForReaders ==
    [][PartiallyCleared => \A u \in CacheThreads : ~Reads(u)]_vars

\* C20: when the cache, empty at first, has only been called through
\* decorated functions, always on the same key, and all the calls have
\* returned, then no call has failed, the function has run at least once and
\* at most once per call, and the cache holds the entry of that key, with the
\* annotated result of one of the runs.
C20_ConcurrentMemoConsistent ==
    (/\ \A t \in CacheThreads : cache_threads[t].pc = "idle" /\ ~cache_threads[t].plain
     /\ Cardinality(UNION {cache_threads[t].keys : t \in CacheThreads}) = 1)
    => /\ \A t \in CacheThreads : ~cache_threads[t].failed
       /\ \E t \in CacheThreads : cache_threads[t].computes >= 1
       /\ \A t \in CacheThreads : cache_threads[t].computes <= cache_threads[t].calls
       /\ DOMAIN _cache = UNION {cache_threads[t].keys : t \in CacheThreads}
       /\ \A k \in DOMAIN _cache :
             \E u \in CacheThreads :
                 /\ cache_threads[u].computes >= 1
                 /\ _cache[k].result = cache_threads[u].result
                 /\ HasField(_cache[k].result, "execution_time_ms")


\* C21: a set on an enabled cache leaves no entry, other than possibly the
\* one it writes, whose age is cache_ttl or more (an age of exactly cache_ttl
\* included), and the entry it writes has the time of the call as its
\* timestamp and as its access time.
C21_SetSweepsEveryExpiredEntry ==
    [][(SetStep /\ cache_enabled) =>
        /\ \A k \in (DOMAIN _cache') \ {last'.key} :
              now - _cache'[k].timestamp < cache_ttl
        /\ last'.key \in DOMAIN _cache'
        /\ _cache'[last'.key].timestamp = now
        /\ AccessTime(_access_times', last'.key) = now]_vars


\* The time of the latest set of the key among the sets whose entry has not
\* been removed since.
LastSetTime(key) ==
    LET times == {written[tr].time : tr \in {x \in DOMAIN written : KeyOf(x) = key}}
    IN  CHOOSE t \in times : \A u \in times : u <= t

\* C22: an entry's lifetime runs from the latest set of its key and reads do
\* not extend it: a get of a key whose entry was last set at time T is a hit
\* when it is made before T + cache_ttl and a miss returning None when it is
\* made at T + cache_ttl or later, however many hits came in between; and no
\* get changes the timestamp of an entry it leaves in the cache.
C22_LifetimeFromLastSet ==
    [][(GetStep /\ cache_enabled) =>
        /\ (\E tr \in DOMAIN written : KeyOf(tr) = last'.key)
              => /\ last'.hit <=> (now < LastSetTime(last'.key) + cache_ttl)
                 /\ ~last'.hit => last'.ret = NoneVal
        /\ \A k \in (DOMAIN _cache) \cap (DOMAIN _cache') :
              _cache'[k].timestamp = _cache[k].timestamp]_vars

\* A get misses on an entry of age cache_ttl or more that an earlier get hit.
C22_Witness ==
    /\ cache_enabled
    /\ last.op = "get"
    /\ ~last.hit
    /\ last.age >= cache_ttl
    /\ _hit_count >= 1


\* C25: whatever gets, sets and clears are made one after the other on a
\* cache that starts empty, the number of stored entries is never more than
\* max_cache_size + 1.
C25_SizeAtMostCapacityPlusOne ==
    Cardinality(DOMAIN _cache) <= max_cache_size + 1

\* A set has left max_cache_size + 1 entries in the cache.
C25_Witness ==
    /\ cache_enabled
    /\ last.op = "set"
    /\ Cardinality(DOMAIN _cache) = max_cache_size + 1


ClearStep == last'.seq = last.seq + 1 /\ last'.op = "clear"

\* C27: on an enabled cache called by one caller at a time, every get adds
\* one to exactly one of the hit and miss counters and leaves the other as it
\* is, set changes neither, neither counter goes down except in clear_cache,
\* and the two counters always add up to the number of gets made since the
\* construction or the last clear_cache.
C27_CountersCountGets ==
    [][cache_enabled =>
        /\ GetStep => \/ /\ _hit_count' = _hit_count + 1
                         /\ _miss_count' = _miss_count
                      \/ /\ _hit_count' = _hit_count
                         /\ _miss_count' = _miss_count + 1
        /\ SetStep => /\ _hit_count' = _hit_count
                      /\ _miss_count' = _miss_count
        /\ ~ClearStep => /\ _hit_count' >= _hit_count
                         /\ _miss_count' >= _miss_count
        /\ _hit_count' + _miss_count' = last'.gets]_vars

\* A get has been counted as a miss, a set has stored an entry, and a get
\* has then been counted as a hit.
C27_Witness ==
    /\ cache_enabled
    /\ last.op = "get"
    /\ last.hit
    /\ _hit_count = 1
    /\ _miss_count = 1
    /\ last.gets = 2


\* C28: when the calls are made one after the other, after every get, set
\* and clear_cache the keys of _cache and the keys of _access_times are the
\* same set, and the access time of every entry is not earlier than its
\* timestamp.
C28_AccessTimesMatchEntries ==
    /\ ItemKeys(_access_times) = DOMAIN _cache
    /\ \A k \in DOMAIN _cache :
          AccessTime(_access_times, k) >= _cache[k].timestamp

\* A hit has moved an entry's access time past its timestamp, next to an
\* entry that a later set wrote.
C28_Witness ==
    /\ last.op = "get"
    /\ last.hit
    /\ AccessTime(_access_times, last.key) > _cache[last.key].timestamp
    /\ Cardinality(DOMAIN _cache) = 2


\* C26: on an enabled cache, whatever the wrapped function returns (None
\* included), a call of the wrapper that invokes the wrapped function adds one
\* to the miss counter and leaves the hit counter as it is, and a call that
\* adds one to the hit counter returns the stored value without invoking the
\* wrapped function.
C26_ComputeOnlyOnCountedMiss ==
    [][(MemoStep /\ cache_enabled) =>
        /\ last'.computed => /\ _miss_count' = _miss_count + 1
                             /\ _hit_count' = _hit_count
        /\ (_hit_count' = _hit_count + 1) =>
              /\ ~last'.computed
              /\ last'.key \in DOMAIN _cache
              /\ last'.ret = _cache[last'.key].result]_vars


\* The number of live entries (age < cache_ttl at the current time) of each
\* analysis type that has one.
LiveEntriesByType ==
    LET live == {k \in DOMAIN _cache :
                    _is_cache_valid(cache_enabled, cache_ttl, _cache[k], now)}
        types == {_cache[k].analysis_type : k \in live}
    IN  DictV([ty \in types |->
                  IntV(Cardinality({k \in live : _cache[k].analysis_type = ty}))])

\* C23: get_cache_entries_by_type maps each analysis type to the number of
\* entries of that type that are live (age < cache_ttl); an entry that has
\* expired but has not been removed yet is not counted.
C23_EntriesByTypeCountsLive ==
    [][(last'.seq = last.seq + 1 /\ last'.op = "by_type") =>
        last'.ret = LiveEntriesByType]_vars

\* C24: a hit of a memoized call returns the value as it was stored, whatever
\* the caller that received it from an earlier call has done with it.
C24_HitReturnsValueAsStored ==
    [][(/\ last'.seq = last.seq + 1
        /\ last'.op \in {"ai", "smart"}
        /\ last'.hit
        /\ last'.triple \in DOMAIN written) =>
        last'.ret = written[last'.triple].value]_vars


PrStep ==
    /\ mon_log'.calls = mon_log.calls + 1
    /\ mon_log'.op = "analyze_and_comment_on_pr"

C30_EveryCallReturns ==
    /\ [][\A t \in Threads :
             /\ (_lock' = t /\ _lock # t) =>
                   /\ _lock = Unlocked
                   /\ monitor_threads[t].pc = "acquire"
                   /\ monitor_threads'[t].pc \notin {"idle", "acquire"}
             /\ (monitor_threads'[t].pc \in {"idle", "acquire"}) => _lock' # t]_vars
    /\ \A t \in Threads :
          (monitor_threads[t].pc # "idle") ~> (monitor_threads[t].pc = "idle")

\* Two threads wait for the lock while a third one holds it inside
\* get_performance_stats.
C30_Witness ==
    \E t \in Threads :
        /\ _lock = t
        /\ monitor_threads[t].op = "get_performance_stats"
        /\ \A u \in Threads \ {t} : monitor_threads[u].pc = "acquire"

=============================================================================
